---- MODULE Spec2Model ----
(***************************************************************************)
(* Model of the Pacman rule engine (src/pacman.py: GameState, PacmanRules, *)
(* GhostRules, ClassicGameRules) and of the turn scheduler (src/game.py:   *)
(* Game.run), together with the data classes of src/game.py they use.      *)
(*                                                                         *)
(* Positions are stored in half-cell units (HalfCells per cell): Pacman    *)
(* moves one cell, a ghost one cell or (scared) half a cell, so every      *)
(* coordinate the engine can produce is a multiple of 0.5.                 *)
(***************************************************************************)
EXTENDS Integers, Sequences, FiniteSets, TLC

\* ------------------------------------------------------------------------
\* Bounds of the model
\* ------------------------------------------------------------------------

\* longest move history explored
MaxMoves == 5

\* longest duration of one agent callback, in the unit of the rule budgets
MaxCallTime == 1

\* the timeout the rules are constructed with: ClassicGameRules(timeout)
RulesTimeout == 1

\* ------------------------------------------------------------------------
\* Program constants
\* ------------------------------------------------------------------------

\* representation: half-cell units per cell (speed /= 2.0 for scared ghosts)
HalfCells == 2

SCARED_TIME == 40

\* COLLISION_TOLERANCE = 0.7, in tenths of a cell
COLLISION_TOLERANCE == 7

TIME_PENALTY == 1

\* Actions.TOLERANCE = 0.001, in thousandths of a cell
TOLERANCE == 1

PACMAN_SPEED == 1

GHOST_SPEED == 1

\* score increments of PacmanRules.consume and GhostRules.collide
FOOD_REWARD == 10

WIN_BONUS == 500

GHOST_BONUS == 200

LOSE_PENALTY == 500

\* ------------------------------------------------------------------------
\* Directions and Actions (src/game.py)
\* ------------------------------------------------------------------------

NORTH == "North"

SOUTH == "South"

EAST == "East"

WEST == "West"

STOP == "Stop"

Directions == {NORTH, SOUTH, EAST, WEST, STOP}

\* Actions._directionsAsList: the iteration order of Actions._directions
DirectionsAsList == <<NORTH, SOUTH, EAST, WEST, STOP>>

\* Actions._directions: unit vectors, in cells
DirVec(d) ==
  CASE d = NORTH -> <<0, 1>>
    [] d = SOUTH -> <<0, -1>>
    [] d = EAST  -> <<1, 0>>
    [] d = WEST  -> <<-1, 0>>
    [] OTHER     -> <<0, 0>>

reverseDirection(action) ==
  CASE action = NORTH -> SOUTH
    [] action = SOUTH -> NORTH
    [] action = EAST  -> WEST
    [] action = WEST  -> EAST
    [] OTHER          -> action

vectorToDirection(vector) ==
  IF vector[2] > 0 THEN NORTH
  ELSE IF vector[2] < 0 THEN SOUTH
  ELSE IF vector[1] < 0 THEN WEST
  ELSE IF vector[1] > 0 THEN EAST
  ELSE STOP

\* speed is given in half-cells per move; the result is in half-cells
directionToVector(direction, speed) ==
  <<DirVec(direction)[1] * speed, DirVec(direction)[2] * speed>>

Abs(n) == IF n < 0 THEN -n ELSE n

\* util.manhattanDistance, on half-cell coordinates
manhattanDistance(p, q) == Abs(p[1] - q[1]) + Abs(p[2] - q[2])

\* int(x + 0.5) for a half-cell coordinate h >= 0: the result is in cells
RoundCell(h) == (h + 1) \div HalfCells

\* util.nearestPoint: the result is again in half-cell units
nearestPoint(pos) == <<RoundCell(pos[1]) * HalfCells, RoundCell(pos[2]) * HalfCells>>

\* a half-cell position that lies on a grid point, as a cell
CellOf(pos) == <<pos[1] \div HalfCells, pos[2] \div HalfCells>>

RemoveAt(seq, k) == SubSeq(seq, 1, k - 1) \o SubSeq(seq, k + 1, Len(seq))

IndexOf(seq, e) == CHOOSE k \in 1..Len(seq) : seq[k] = e /\ \A j \in 1..(k - 1) : seq[j] # e

InSeq(seq, e) == \E k \in 1..Len(seq) : seq[k] = e

\* list.remove(e): removes the first occurrence
ListRemove(seq, e) == RemoveAt(seq, IndexOf(seq, e))

\* a getPossibleActions that does not look at the walls
getPossibleActionsNoWalls(config, walls) ==
  LET x_int == RoundCell(config.pos[1])
      y_int == RoundCell(config.pos[2])
      off   == Abs(config.pos[1] - x_int * HalfCells) + Abs(config.pos[2] - y_int * HalfCells)
  IN IF off * 1000 > TOLERANCE * HalfCells
       THEN <<config.direction>>
       ELSE DirectionsAsList

\* Actions.getPossibleActions(config, walls)
getPossibleActions(config, walls) ==
  LET x_int == RoundCell(config.pos[1])
      y_int == RoundCell(config.pos[2])
      off   == Abs(config.pos[1] - x_int * HalfCells) + Abs(config.pos[2] - y_int * HalfCells)
      Open(d) == <<x_int + DirVec(d)[1], y_int + DirVec(d)[2]>> \notin walls
  IN IF off * 1000 > TOLERANCE * HalfCells
       THEN <<config.direction>>
       ELSE SelectSeq(DirectionsAsList, Open)

\* Configuration.generateSuccessor(vector)
ConfigurationSuccessor(config, vector) ==
  LET direction == vectorToDirection(vector)
  IN [pos       |-> <<config.pos[1] + vector[1], config.pos[2] + vector[2]>>,
      direction |-> IF direction = STOP THEN config.direction ELSE direction]

\* ------------------------------------------------------------------------
\* Layouts (opaque input of GameStateData.initialize): walls, food, capsules
\* and start positions, in cells; the border is walled
\* ------------------------------------------------------------------------

Border(w, h) == {c \in (0..(w - 1)) \X (0..(h - 1)) : c[1] \in {0, w - 1} \/ c[2] \in {0, h - 1}}

\* %%%%%
\* %o G%
\* %P..%
\* %%%%%
RoomLayout ==
  [width |-> 5, height |-> 4,
   walls |-> Border(5, 4),
   food |-> {<<2, 1>>, <<3, 1>>},
   capsules |-> << <<1, 2>> >>,
   agentPositions |-> << [isPacman |-> TRUE, pos |-> <<1, 1>>],
                         [isPacman |-> FALSE, pos |-> <<3, 2>>] >>]

\* %%%%%%%
\* %.PoG %
\* %%%%%%%
CorridorLayout ==
  [width |-> 7, height |-> 3,
   walls |-> Border(7, 3),
   food |-> {<<1, 1>>},
   capsules |-> << <<3, 1>> >>,
   agentPositions |-> << [isPacman |-> TRUE, pos |-> <<2, 1>>],
                         [isPacman |-> FALSE, pos |-> <<4, 1>>] >>]

\* %%%%%%%
\* %oPGG.%
\* %%%%%%%
TwoGhostLayout ==
  [width |-> 7, height |-> 3,
   walls |-> Border(7, 3),
   food |-> {<<5, 1>>},
   capsules |-> << <<1, 1>> >>,
   agentPositions |-> << [isPacman |-> TRUE, pos |-> <<2, 1>>],
                         [isPacman |-> FALSE, pos |-> <<3, 1>>],
                         [isPacman |-> FALSE, pos |-> <<4, 1>>] >>]

Layouts == {RoomLayout, CorridorLayout, TwoGhostLayout}

\* ------------------------------------------------------------------------
\* AgentState and GameStateData (src/game.py)
\* ------------------------------------------------------------------------

None == "None"

\* AgentState.__init__(startConfiguration, isPacman)
AgentState(startConfiguration, isPacman) ==
  [start |-> startConfiguration, configuration |-> startConfiguration,
   isPacman |-> isPacman, scaredTimer |-> 0]

\* GameStateData.initialize(layout, numGhostAgents) on a fresh GameStateData()
InitialState(layout) ==
  [food |-> layout.food,
   capsules |-> layout.capsules,
   agentStates |-> [k \in 1..Len(layout.agentPositions) |->
                      AgentState([pos |-> <<layout.agentPositions[k].pos[1] * HalfCells,
                                            layout.agentPositions[k].pos[2] * HalfCells>>,
                                  direction |-> STOP],
                                 layout.agentPositions[k].isPacman)],
   score |-> 0, scoreChange |-> 0,
   eaten |-> [k \in 1..Len(layout.agentPositions) |-> FALSE],
   foodEaten |-> None, capsuleEaten |-> None, agentMoved |-> None,
   lose |-> FALSE, win |-> FALSE]

\* a copy that carries the predecessor's scoreChange over into the successor
GameStateDataCopyKeepChange(prevState) ==
  [food |-> prevState.food,
   capsules |-> prevState.capsules,
   agentStates |-> prevState.agentStates,
   score |-> prevState.score, scoreChange |-> prevState.scoreChange,
   eaten |-> prevState.eaten,
   foodEaten |-> None, capsuleEaten |-> None, agentMoved |-> None,
   lose |-> FALSE, win |-> FALSE]

\* GameStateData.__init__(prevState): the copy a transition starts from
GameStateDataCopy(prevState) ==
  [food |-> prevState.food,
   capsules |-> prevState.capsules,
   agentStates |-> prevState.agentStates,
   score |-> prevState.score, scoreChange |-> 0,
   eaten |-> prevState.eaten,
   foodEaten |-> None, capsuleEaten |-> None, agentMoved |-> None,
   lose |-> FALSE, win |-> FALSE]

\* GameState.deepCopy(): a GameStateData(self) whose food and layout are deep
\* copies and that takes over _agentMoved, _foodEaten and _capsuleEaten
deepCopy(s) ==
  [GameStateDataCopy(s) EXCEPT !.agentMoved = s.agentMoved,
                               !.foodEaten = s.foodEaten,
                               !.capsuleEaten = s.capsuleEaten]

\* GameStateData.__eq__: agent configurations and timers, food, capsules, score
AgentStateEq(a, b) == a.configuration = b.configuration /\ a.scaredTimer = b.scaredTimer

StateEq(s, t) ==
  /\ Len(s.agentStates) = Len(t.agentStates)
  /\ \A k \in 1..Len(s.agentStates) : AgentStateEq(s.agentStates[k], t.agentStates[k])
  /\ s.food = t.food
  /\ s.capsules = t.capsules
  /\ s.score = t.score

\* Agent index i of the code (0 = Pacman) is element i + 1 of agentStates.
NumAgents(s) == Len(s.agentStates)

AgentIndexes(s) == 0..(NumAgents(s) - 1)

GhostIndexes(s) == 1..(NumAgents(s) - 1)

getPacmanPosition(s) == s.agentStates[1].configuration.pos

\* ------------------------------------------------------------------------
\* PacmanRules (src/pacman.py)
\* ------------------------------------------------------------------------

\* a getLegalActions for Pacman that does not offer Stop
PacmanGetLegalActionsNoStop(layout, s) ==
  SelectSeq(getPossibleActions(s.agentStates[1].configuration, layout.walls),
            LAMBDA d : d # STOP)

PacmanGetLegalActions(layout, s) ==
  getPossibleActions(s.agentStates[1].configuration, layout.walls)

\* an "Eat food" after which food appears on the cell Pacman started from
EatFoodRespawn(cell, s) ==
  [s EXCEPT !.scoreChange = @ + FOOD_REWARD,
            !.food = (@ \ {cell}) \cup {CellOf(s.agentStates[1].start.pos)},
            !.foodEaten = cell]

\* PacmanRules.consume, "Eat food", at a cell that has food
EatFood(cell, s) ==
  [s EXCEPT !.scoreChange = @ + FOOD_REWARD
                            + (IF Cardinality(s.food \ {cell}) = 0 /\ ~s.lose
                                 THEN WIN_BONUS ELSE 0),
            !.food = @ \ {cell},
            !.foodEaten = cell,
            !.win = IF Cardinality(s.food \ {cell}) = 0 /\ ~s.lose THEN TRUE ELSE @]

\* an "Eat capsule" that removes the capsule but scares no ghost
EatCapsuleNoScare(cell, s) ==
  [s EXCEPT !.capsules = ListRemove(@, cell),
            !.capsuleEaten = cell]

\* an "Eat capsule" that scares only the ghosts that are not scared yet
EatCapsuleUnscaredOnly(cell, s) ==
  [s EXCEPT !.capsules = ListRemove(@, cell),
            !.capsuleEaten = cell,
            !.agentStates = [k \in 1..Len(@) |->
                               IF k = 1 \/ @[k].scaredTimer > 0 THEN @[k]
                               ELSE [@[k] EXCEPT !.scaredTimer = SCARED_TIME]]]

\* PacmanRules.consume, "Eat capsule", at a cell that has a capsule
EatCapsule(cell, s) ==
  [s EXCEPT !.capsules = ListRemove(@, cell),
            !.capsuleEaten = cell,
            !.agentStates = [k \in 1..Len(@) |->
                               IF k = 1 THEN @[k]
                               ELSE [@[k] EXCEPT !.scaredTimer = SCARED_TIME]]]

\* the capsule part of consume, on the state the food part produced
ConsumeCapsule(cell, s) == IF InSeq(s.capsules, cell) THEN EatCapsule(cell, s) ELSE s

\* PacmanRules.consume(position, state); position is a grid point
consume(position, s) ==
  ConsumeCapsule(CellOf(position),
                 IF CellOf(position) \in s.food THEN EatFood(CellOf(position), s) ELSE s)

\* PacmanRules.applyAction after the legality check: "Update Configuration"
\* and "Eat"
PacmanMove(s, action) ==
  LET conf == ConfigurationSuccessor(s.agentStates[1].configuration,
                                     directionToVector(action, PACMAN_SPEED * HalfCells))
  IN IF manhattanDistance(nearestPoint(conf.pos), conf.pos) * 2 <= HalfCells
       THEN consume(nearestPoint(conf.pos), [s EXCEPT !.agentStates[1].configuration = conf])
       ELSE [s EXCEPT !.agentStates[1].configuration = conf]

\* a rule engine that moves Pacman without validating the action
PacmanApplyActionUnchecked(layout, s, action) ==
  [status |-> "ok", state |-> PacmanMove(s, action)]

\* PacmanRules.applyAction(state, action)
PacmanApplyAction(layout, s, action) ==
  IF ~InSeq(PacmanGetLegalActions(layout, s), action)
    THEN [status |-> "illegal", state |-> s]
    ELSE [status |-> "ok", state |-> PacmanMove(s, action)]

\* ------------------------------------------------------------------------
\* GhostRules (src/pacman.py)
\* ------------------------------------------------------------------------

\* a getLegalActions for ghosts that forbids reversing also in a dead end
GhostGetLegalActionsNoReverse(layout, s, ghostIndex) ==
  LET conf == s.agentStates[ghostIndex + 1].configuration
      possibleActions == getPossibleActions(conf, layout.walls)
      reverse == reverseDirection(conf.direction)
      noStop == IF InSeq(possibleActions, STOP)
                  THEN ListRemove(possibleActions, STOP) ELSE possibleActions
  IN IF InSeq(noStop, reverse) THEN ListRemove(noStop, reverse) ELSE noStop

GhostGetLegalActions(layout, s, ghostIndex) ==
  LET conf == s.agentStates[ghostIndex + 1].configuration
      possibleActions == getPossibleActions(conf, layout.walls)
      reverse == reverseDirection(conf.direction)
      noStop == IF InSeq(possibleActions, STOP)
                  THEN ListRemove(possibleActions, STOP) ELSE possibleActions
  IN IF InSeq(noStop, reverse) /\ Len(noStop) > 1
       THEN ListRemove(noStop, reverse)
       ELSE noStop

\* an applyAction that moves a ghost a full cell also while it is scared
GhostApplyActionFullSpeed(layout, s, action, ghostIndex) ==
  IF ~InSeq(GhostGetLegalActions(layout, s, ghostIndex), action)
    THEN [status |-> "illegal", state |-> s]
    ELSE LET ghostState == s.agentStates[ghostIndex + 1]
             vector == directionToVector(action, GHOST_SPEED * HalfCells)
         IN [status |-> "ok",
             state |-> [s EXCEPT !.agentStates[ghostIndex + 1].configuration =
                                    ConfigurationSuccessor(ghostState.configuration, vector)]]

\* GhostRules.applyAction(state, action, ghostIndex)
GhostApplyAction(layout, s, action, ghostIndex) ==
  IF ~InSeq(GhostGetLegalActions(layout, s, ghostIndex), action)
    THEN [status |-> "illegal", state |-> s]
    ELSE LET ghostState == s.agentStates[ghostIndex + 1]
             speed == IF ghostState.scaredTimer > 0
                        THEN (GHOST_SPEED * HalfCells) \div 2
                        ELSE GHOST_SPEED * HalfCells
             vector == directionToVector(action, speed)
         IN [status |-> "ok",
             state |-> [s EXCEPT !.agentStates[ghostIndex + 1].configuration =
                                    ConfigurationSuccessor(ghostState.configuration, vector)]]

Max(a, b) == IF a > b THEN a ELSE b

\* a decrementTimer without the floor at 0
decrementTimerNoFloor(ghostState) ==
  LET timer == ghostState.scaredTimer
      snapped == IF timer = 1
                   THEN [ghostState EXCEPT !.configuration.pos = nearestPoint(@)]
                   ELSE ghostState
  IN [snapped EXCEPT !.scaredTimer = timer - 1]

\* a decrementTimer that leaves the ghost where its move took it
decrementTimerNoSnap(ghostState) ==
  [ghostState EXCEPT !.scaredTimer = Max(0, ghostState.scaredTimer - 1)]

\* GhostRules.decrementTimer(ghostState)
decrementTimer(ghostState) ==
  LET timer == ghostState.scaredTimer
      snapped == IF timer = 1
                   THEN [ghostState EXCEPT !.configuration.pos = nearestPoint(@)]
                   ELSE ghostState
  IN [snapped EXCEPT !.scaredTimer = Max(0, timer - 1)]

\* GhostRules.canKill(pacmanPosition, ghostPosition)
canKill(pacmanPosition, ghostPosition) ==
  manhattanDistance(ghostPosition, pacmanPosition) * 10 <= COLLISION_TOLERANCE * HalfCells

\* a placeGhost that moves the ghost back but keeps its facing
placeGhostKeepFacing(ghostState) ==
  [ghostState EXCEPT !.configuration.pos = ghostState.start.pos]

\* GhostRules.placeGhost(state, ghostState)
placeGhost(ghostState) == [ghostState EXCEPT !.configuration = ghostState.start]

\* GhostRules.collide with a scared ghost
EatGhost(s, agentIndex) ==
  [s EXCEPT !.scoreChange = @ + GHOST_BONUS,
            !.agentStates[agentIndex + 1] = [placeGhost(@) EXCEPT !.scaredTimer = 0],
            !.eaten[agentIndex + 1] = TRUE]

\* a collide that kills Pacman without looking at the win flag
collideIgnoringWin(s, agentIndex) ==
  IF s.agentStates[agentIndex + 1].scaredTimer > 0
    THEN EatGhost(s, agentIndex)
    ELSE [s EXCEPT !.scoreChange = @ - LOSE_PENALTY, !.lose = TRUE]

\* a collide that applies the penalty but does not end the game
collideWithoutLose(s, agentIndex) ==
  IF s.agentStates[agentIndex + 1].scaredTimer > 0
    THEN EatGhost(s, agentIndex)
    ELSE IF ~s.win THEN [s EXCEPT !.scoreChange = @ - LOSE_PENALTY] ELSE s

\* a collide that charges the penalty for a ghost that is not scared also
\* after a win, without setting lose
collidePenaltyOnWin(s, agentIndex) ==
  IF s.agentStates[agentIndex + 1].scaredTimer > 0
    THEN EatGhost(s, agentIndex)
    ELSE IF ~s.win
           THEN [s EXCEPT !.scoreChange = @ - LOSE_PENALTY, !.lose = TRUE]
           ELSE [s EXCEPT !.scoreChange = @ - LOSE_PENALTY]

\* GhostRules.collide(state, ghostState, agentIndex)
collide(s, agentIndex) ==
  IF s.agentStates[agentIndex + 1].scaredTimer > 0
    THEN EatGhost(s, agentIndex)
    ELSE IF ~s.win
           THEN [s EXCEPT !.scoreChange = @ - LOSE_PENALTY, !.lose = TRUE]
           ELSE s

\* one iteration of the loop of checkDeath over the ghosts
CheckOne(s, index) ==
  IF canKill(getPacmanPosition(s), s.agentStates[index + 1].configuration.pos)
    THEN collide(s, index)
    ELSE s

RECURSIVE CheckFrom(_, _)
\* the loop "for index in range(1, len(agentStates))" from index on
CheckFrom(s, index) ==
  IF index > NumAgents(s) - 1 THEN s ELSE CheckFrom(CheckOne(s, index), index + 1)

\* a checkDeath that resolves collisions only after Pacman's move
checkDeathPacmanOnly(s, agentIndex) ==
  IF agentIndex = 0 THEN CheckFrom(s, 1) ELSE s

\* a checkDeath that checks every ghost whoever moved
checkDeathAll(s, agentIndex) == CheckFrom(s, 1)

\* GhostRules.checkDeath(state, agentIndex)
checkDeath(s, agentIndex) ==
  IF agentIndex = 0 THEN CheckFrom(s, 1) ELSE CheckOne(s, agentIndex)

\* ------------------------------------------------------------------------
\* GameState (src/pacman.py)
\* ------------------------------------------------------------------------

\* an isWin that never reports a win
isWinNever(s) == FALSE

isWin(s) == s.win

\* an isLose that never reports a loss
isLoseNever(s) == FALSE

isLose(s) == s.lose

\* GameState.getLegalActions(agentIndex)
getLegalActions(layout, s, agentIndex) ==
  IF isWin(s) \/ isLose(s) THEN <<>>
  ELSE IF agentIndex = 0 THEN PacmanGetLegalActions(layout, s)
  ELSE GhostGetLegalActions(layout, s, agentIndex)

\* generateSuccessor, "Let agent's logic deal with its action's effects on
\* the board", on the copy of the predecessor: [status, state]
ApplyAgentAction(layout, copy, agentIndex, action) ==
  IF agentIndex = 0
    THEN PacmanApplyAction(layout,
           [copy EXCEPT !.eaten = [k \in 1..NumAgents(copy) |-> FALSE]], action)
    ELSE GhostApplyAction(layout, copy, action, agentIndex)

\* a "Time passes" that charges Pacman nothing for the move
TimePassesFree(moved, agentIndex) ==
  IF agentIndex = 0
    THEN moved
    ELSE [moved EXCEPT !.agentStates[agentIndex + 1] = decrementTimer(@)]

\* generateSuccessor, "Time passes", on the state the action produced
TimePasses(moved, agentIndex) ==
  IF agentIndex = 0
    THEN [moved EXCEPT !.scoreChange = @ - TIME_PENALTY]
    ELSE [moved EXCEPT !.agentStates[agentIndex + 1] = decrementTimer(@)]

\* a "Book keeping" that adds the score change of the transition twice
BookKeepingTwice(checked, agentIndex) ==
  [checked EXCEPT !.agentMoved = agentIndex, !.score = @ + 2 * checked.scoreChange]

\* generateSuccessor, "Book keeping", on the state after checkDeath
BookKeeping(checked, agentIndex) ==
  [checked EXCEPT !.agentMoved = agentIndex, !.score = @ + checked.scoreChange]

\* the state of a transition just before its collisions are resolved
\* (defined when the action is legal in s)
BeforeCheckDeath(layout, s, agentIndex, action) ==
  TimePasses(ApplyAgentAction(layout, GameStateDataCopy(s), agentIndex, action).state,
             agentIndex)

\* what generateSuccessor returns and leaves behind, given the outcome of
\* applyAction: the successor, and the predecessor as it is after the call
\* (on a ghost's turn the successor shares the _eaten list of its predecessor)
SuccessorOf(s, agentIndex, applied) ==
  IF applied.status # "ok"
    THEN [status |-> applied.status, state |-> None, pred |-> s]
    ELSE [status |-> "ok",
          state |-> BookKeeping(checkDeath(TimePasses(applied.state, agentIndex), agentIndex),
                                agentIndex),
          pred |-> IF agentIndex = 0 THEN s
                   ELSE [s EXCEPT !.eaten =
                           checkDeath(TimePasses(applied.state, agentIndex), agentIndex).eaten]]

\* GameState.generateSuccessor(agentIndex, action): status is "ok" or names
\* the exception raised
generateSuccessor(layout, s, agentIndex, action) ==
  IF isWin(s) \/ isLose(s)
    THEN [status |-> "terminal", state |-> None, pred |-> s]
    ELSE SuccessorOf(s, agentIndex,
                     ApplyAgentAction(layout, GameStateDataCopy(s), agentIndex, action))

\* ------------------------------------------------------------------------
\* ClassicGameRules (src/pacman.py): budgets of the rule policy
\* ------------------------------------------------------------------------

getMaxTotalTime(agentIndex) == RulesTimeout

getMaxStartupTime(agentIndex) == RulesTimeout

getMoveWarningTime(agentIndex) == RulesTimeout

getMoveTimeout(agentIndex) == RulesTimeout

getMaxTimeWarnings(agentIndex) == 0

\* ------------------------------------------------------------------------
\* Agents: the capability interface Game.run detects with dir(agent)
\* ------------------------------------------------------------------------

\* an agent that only defines getAction
PlainAgent == [loaded |-> TRUE, registerInitialState |-> FALSE,
               observationFunction |-> FALSE, final |-> FALSE]

\* an agent that defines every optional hook
HookAgent == [loaded |-> TRUE, registerInitialState |-> TRUE,
              observationFunction |-> TRUE, final |-> TRUE]

\* "if not agent": an agent that failed to load
NullAgent == [loaded |-> FALSE, registerInitialState |-> FALSE,
              observationFunction |-> FALSE, final |-> FALSE]

AgentKinds == {PlainAgent, HookAgent, NullAgent}

\* what an agent's getAction may return: any direction, or no action at all
ActionInputs == Directions \cup {None}

\* how a call of agent code ends
CallOutcomes == {"return", "timeout", "raise"}

\* pacman.GameState defines generateSuccessor but no getResult method
HasGetResult == FALSE

\* self.state.getResult(agentIndex, action) of Game.run
getResult(layout, s, agentIndex, action) ==
  IF HasGetResult
    THEN generateSuccessor(layout, s, agentIndex, action)
    ELSE [status |-> "AttributeError", state |-> None, pred |-> s]

\* ------------------------------------------------------------------------
\* Game (src/game.py): the state of one run
\* ------------------------------------------------------------------------

VARIABLES
  layout,                 \* the layout the game was created from
  agents,                 \* Game.agents: one capability record per agent
  catchExceptions,        \* Game.catchExceptions (fault isolation)
  startingIndex,          \* Game.startingIndex
  state,                  \* Game.state: the authoritative snapshot
  moveHistory,            \* Game.moveHistory
  gameOver,               \* Game.gameOver
  agentCrashed,           \* Game.agentCrashed
  agentTimeout,           \* Game.agentTimeout
  crashCalls,             \* the agent indexes rules.agentCrash was called with
  totalAgentTimes,        \* Game.totalAgentTimes
  totalAgentTimeWarnings, \* Game.totalAgentTimeWarnings
  numMoves,               \* Game.numMoves
  pc,                     \* position of run(): startup, observe, solicit,
                          \* execute, final, finish, done (returned), raised;
                          \* engine when the rule engine is called directly
  loopIndex,              \* index of the startup / shutdown for loop
  agentIndex,             \* agentIndex of the main loop
  move_time,              \* move_time of the current turn
  skip_action,            \* skip_action of the current turn
  observation,            \* what getAction is given: "filtered", "deepCopy"
  action,                 \* the action getAction returned on this turn
  registered,             \* completed registerInitialState calls per agent
  finalCalls,             \* completed final calls per agent
  displayFinished,        \* display.finish() was called
  raised,                 \* the exception that left run(), or None
  muteAgents,             \* Game.muteAgents
  stdout,                 \* sys.stdout (sys.stderr is switched with it): the
                          \* sink of the process or the buffer agentOutput[i]
  OLD_STDOUT,             \* the global OLD_STDOUT of mute() and unmute()
  grid,                   \* a Grid object the Grid operations are called on
  gridCall,               \* the latest Grid operation: name and result
  copied,                 \* the latest result of state.deepCopy()
  agentCall,              \* the agent callback made by the latest step of
                          \* run(): hook, agent index, how it ended
  successorCall           \* the latest call of generateSuccessor: arguments,
                          \* how it ended, the input before and after the call

vars == <<layout, agents, catchExceptions, startingIndex, state, moveHistory,
          gameOver, agentCrashed, agentTimeout, crashCalls, totalAgentTimes,
          totalAgentTimeWarnings, numMoves, pc, loopIndex, agentIndex,
          move_time, skip_action, observation, action, registered, finalCalls,
          displayFinished, raised, muteAgents, stdout, OLD_STDOUT, grid,
          gridCall, copied, agentCall, successorCall>>

\* the Grid of a run in which no Grid operation is called
NoGrid == [width |-> 0, height |-> 0, data |-> <<>>]

\* no Grid operation was called yet
NoGridCall == [op |-> None, status |-> None, bits |-> <<>>, grid |-> NoGrid]

\* the output sink of the process when run() is called
ProcessSink == -1

\* the value of the global OLD_STDOUT before mute() first assigns it
NoSink == -2

\* sys.stdout and OLD_STDOUT as one value
Streams == [stdout |-> stdout, OLD_STDOUT |-> OLD_STDOUT]

\* Game.mute(agentIndex): remember the current sink, switch to the agent's
\* buffer
mute(io, index) ==
  IF ~muteAgents THEN io
  ELSE [stdout |-> index, OLD_STDOUT |-> io.stdout]

\* Game.unmute(): switch back to the remembered sink
unmute(io) ==
  IF ~muteAgents THEN io
  ELSE [stdout |-> io.OLD_STDOUT, OLD_STDOUT |-> io.OLD_STDOUT]

\* the streams after a step of run(), which calls no Grid operation
SetStreams(io) ==
  /\ stdout' = io.stdout
  /\ OLD_STDOUT' = io.OLD_STDOUT
  /\ UNCHANGED <<muteAgents, grid, gridCall, copied>>

\* mute and unmute of the startup loop for agent i
StartupStreams(i, outcome) ==
  IF ~agents[i + 1].loaded THEN unmute(mute(Streams, i))
  ELSE IF ~agents[i + 1].registerInitialState THEN Streams
  ELSE IF ~catchExceptions /\ outcome # "return" THEN mute(Streams, i)
  ELSE unmute(mute(Streams, i))

\* mute and unmute of "Generate an observation of the state"
ObservationStreams(called, outcome) ==
  IF ~called THEN Streams
  ELSE IF catchExceptions
    THEN (IF outcome = "raise" THEN unmute(mute(Streams, agentIndex))
          ELSE unmute(unmute(mute(Streams, agentIndex))))
  ELSE IF outcome = "return" THEN unmute(mute(Streams, agentIndex))
  ELSE mute(Streams, agentIndex)

\* mute and unmute of "Solicit an action", which ended as end
GetActionStreams(outcome, end) ==
  IF catchExceptions
    THEN (IF end = "crash" THEN unmute(mute(Streams, agentIndex))
          ELSE unmute(unmute(mute(Streams, agentIndex))))
  ELSE IF outcome = "return" THEN unmute(mute(Streams, agentIndex))
  ELSE mute(Streams, agentIndex)

\* mute and unmute of "Execute the action", whose call ended as status
ExecuteStreams(status) ==
  IF catchExceptions /\ status # "ok" THEN unmute(mute(Streams, agentIndex))
  ELSE Streams

\* mute and unmute of the shutdown loop for agent i
FinalStreams(i, called, outcome) ==
  IF ~called THEN Streams
  ELSE IF outcome = "raise" /\ ~catchExceptions THEN mute(Streams, i)
  ELSE unmute(mute(Streams, i))

\* an agent count that leaves the last agent out of the rotation
numAgentsWithoutLast == Len(agents) - 1

numAgents == Len(agents)

\* duration: the time the call took when it returned, in the unit of the budgets
NoAgentCall == [hook |-> None, agentIndex |-> -1, outcome |-> None, duration |-> 0]

NoSuccessorCall == [agentIndex |-> -1, action |-> None, status |-> None,
                    pred |-> None, predAfter |-> None, result |-> None]

\* the record of one call s.generateSuccessor(i, a) that ended as r
SuccessorCallOf(s, i, a, r) ==
  [agentIndex |-> i, action |-> a, status |-> r.status,
   pred |-> s, predAfter |-> r.pred, result |-> r.state]

\* Game.__init__ with the given agents, as ClassicGameRules.newGame sets it up
GameInit(agentList, catch, starting) ==
  /\ agents = agentList
  /\ catchExceptions = catch
  /\ startingIndex = starting
  /\ state = InitialState(layout)
  /\ moveHistory = <<>>
  /\ gameOver = FALSE
  /\ agentCrashed = FALSE
  /\ agentTimeout = FALSE
  /\ crashCalls = <<>>
  /\ totalAgentTimes = [k \in 1..Len(agentList) |-> 0]
  /\ totalAgentTimeWarnings = [k \in 1..Len(agentList) |-> 0]
  /\ numMoves = 0
  /\ loopIndex = 0
  /\ agentIndex = 0
  /\ move_time = 0
  /\ skip_action = FALSE
  /\ observation = None
  /\ action = None
  /\ registered = [k \in 1..Len(agentList) |-> 0]
  /\ finalCalls = [k \in 1..Len(agentList) |-> 0]
  /\ displayFinished = FALSE
  /\ raised = None
  /\ stdout = ProcessSink
  /\ OLD_STDOUT = NoSink
  /\ gridCall = NoGridCall
  /\ copied = None
  /\ agentCall = NoAgentCall
  /\ successorCall = NoSuccessorCall

\* a game at the start of run(), for any layout, agents, fault-isolation mode
\* and starting index
Init ==
  /\ layout \in Layouts
  /\ \E agentList \in [1..Len(layout.agentPositions) -> AgentKinds],
        catch \in BOOLEAN,
        starting \in 0..(Len(layout.agentPositions) - 1) :
       GameInit(agentList, catch, starting)
  /\ muteAgents \in BOOLEAN
  /\ grid = NoGrid
  /\ pc = "startup"

\* a version of _agentCrash that reports every crash as Pacman's
AgentCrashOnPacman(crashed, index) ==
  /\ gameOver' = (IF crashed THEN TRUE ELSE gameOver)
  /\ agentCrashed' = (IF crashed THEN TRUE ELSE agentCrashed)
  /\ crashCalls' = (IF crashed THEN Append(crashCalls, 0) ELSE crashCalls)

\* a version of _agentCrash that ends the game without setting agentCrashed
AgentCrashOnUnflagged(crashed, index) ==
  /\ gameOver' = (IF crashed THEN TRUE ELSE gameOver)
  /\ agentCrashed' = agentCrashed
  /\ crashCalls' = (IF crashed THEN Append(crashCalls, index) ELSE crashCalls)

\* Game._agentCrash(agentIndex), when crashed: gameOver, agentCrashed and
\* rules.agentCrash(self, agentIndex)
AgentCrashOn(crashed, index) ==
  /\ gameOver' = (IF crashed THEN TRUE ELSE gameOver)
  /\ agentCrashed' = (IF crashed THEN TRUE ELSE agentCrashed)
  /\ crashCalls' = (IF crashed THEN Append(crashCalls, index) ELSE crashCalls)

\* a startup loop that goes on to the next agent after a failed
\* registerInitialState
StartupEndIgnore(i, outcome) ==
  IF ~agents[i + 1].loaded THEN "crash"
  ELSE IF catchExceptions \/ outcome = "return" THEN "next"
  ELSE IF ~agents[i + 1].registerInitialState THEN "next"
  ELSE "raised"

\* One iteration of the startup loop of run(): how it ends for agent i.
\*   "next"    the loop goes on          "crash"   _agentCrash(i) and return
\*   "raised"  the exception leaves run()
StartupEnd(i, outcome) ==
  IF ~agents[i + 1].loaded THEN "crash"
  ELSE IF ~agents[i + 1].registerInitialState THEN "next"
  ELSE IF outcome = "return" THEN "next"
  ELSE IF catchExceptions THEN "crash"
  ELSE "raised"

\* a run() that goes on after an exception that should leave it
PcAfterSwallow(end, next) ==
  CASE end = "crash" -> "done"
    [] OTHER -> next

\* the position of run() after a step that ended as end
PcAfter(end, next) ==
  CASE end = "crash" -> "done"
    [] end = "raised" -> "raised"
    [] OTHER -> next

\* run(): startup loop, one agent per step
RegisterInitialState ==
  /\ pc = "startup"
  /\ \E outcome \in CallOutcomes, d \in 0..MaxCallTime :
       LET i == loopIndex
           called == agents[i + 1].loaded /\ agents[i + 1].registerInitialState
           end == StartupEnd(i, outcome)
       IN /\ (outcome = "timeout") => (called /\ catchExceptions)
          /\ AgentCrashOn(end = "crash", i)
          /\ agentCall' = (IF called
                             THEN [hook |-> "registerInitialState", agentIndex |-> i,
                                   outcome |-> outcome,
                                   duration |-> IF outcome = "return" THEN d ELSE 0]
                             ELSE NoAgentCall)
          /\ agentTimeout' = (IF called /\ catchExceptions /\ outcome = "timeout"
                                THEN TRUE ELSE agentTimeout)
          /\ totalAgentTimes' = (IF called /\ catchExceptions /\ outcome = "return"
                                   THEN [totalAgentTimes EXCEPT ![i + 1] = @ + d]
                                   ELSE totalAgentTimes)
          /\ registered' = (IF called /\ outcome = "return"
                              THEN [registered EXCEPT ![i + 1] = @ + 1]
                              ELSE registered)
          /\ raised' = (IF end = "raised" THEN "AgentFault" ELSE raised)
          /\ pc' = PcAfter(end, IF i + 1 < numAgents THEN "startup" ELSE "observe")
          /\ loopIndex' = (IF end = "next" /\ i + 1 < numAgents THEN i + 1 ELSE i)
          /\ agentIndex' = (IF end = "next" /\ i + 1 >= numAgents
                              THEN startingIndex ELSE agentIndex)
          /\ SetStreams(StartupStreams(i, outcome))
  /\ UNCHANGED <<layout, agents, catchExceptions, startingIndex, state, moveHistory,
                 totalAgentTimeWarnings, numMoves, move_time, skip_action,
                 observation, action, finalCalls, displayFinished, successorCall>>

\* an observation step in which a timeout of observationFunction is an
\* agent crash at once
ObservationEndFatal(called, outcome) ==
  IF ~called \/ outcome = "return" THEN "next"
  ELSE IF ~catchExceptions THEN "raised"
  ELSE "crash"

\* how "Generate an observation of the state" ends: a timeout of
\* observationFunction only sets skip_action
ObservationEnd(called, outcome) ==
  IF ~called \/ outcome = "return" THEN "next"
  ELSE IF ~catchExceptions THEN "raised"
  ELSE IF outcome = "timeout" THEN "next"
  ELSE "crash"

\* run(): "Generate an observation of the state" for the agent whose turn it is
ObservationFunction ==
  /\ pc = "observe"
  /\ \E outcome \in CallOutcomes, d \in 0..MaxCallTime :
       LET called == agents[agentIndex + 1].observationFunction
           end == ObservationEnd(called, outcome)
       IN /\ (outcome = "timeout") => (called /\ catchExceptions)
          /\ AgentCrashOn(end = "crash", agentIndex)
          /\ agentCall' = (IF called
                             THEN [hook |-> "observationFunction",
                                   agentIndex |-> agentIndex, outcome |-> outcome,
                                   duration |-> IF outcome = "return" THEN d ELSE 0]
                             ELSE NoAgentCall)
          /\ skip_action' = (called /\ catchExceptions /\ outcome = "timeout")
          /\ move_time' = (IF called /\ catchExceptions /\ end = "next" THEN d ELSE 0)
          /\ observation' = (IF ~called THEN "deepCopy"
                             ELSE IF outcome = "return" THEN "filtered"
                             ELSE observation)
          /\ raised' = (IF end = "raised" THEN "AgentFault" ELSE raised)
          /\ pc' = PcAfter(end, "solicit")
          /\ SetStreams(ObservationStreams(called, outcome))
  /\ action' = None
  /\ UNCHANGED <<layout, agents, catchExceptions, startingIndex, state, moveHistory,
                 agentTimeout, totalAgentTimes, totalAgentTimeWarnings, numMoves,
                 loopIndex, agentIndex, registered, finalCalls, displayFinished,
                 successorCall>>

\* a "Solicit an action" that lets a timed-out getAction through to the
\* execution of the turn
GetActionEndLate(outcome, timedOut, overBudget) ==
  IF ~catchExceptions
    THEN (IF outcome = "return" THEN "next" ELSE "raised")
    ELSE IF outcome = "raise" \/ overBudget THEN "crash"
    ELSE "next"

\* a "Solicit an action" that does not act on the warning-count and
\* total-time checks
GetActionEndOverBudget(outcome, timedOut, overBudget) ==
  IF ~catchExceptions
    THEN (IF outcome = "return" THEN "next" ELSE "raised")
    ELSE IF timedOut \/ outcome # "return" THEN "crash"
    ELSE "next"

\* how "Solicit an action" ends: timedOut is a TimeoutFunctionException
\* (skip_action or the call's own timeout), overBudget the warning-count or
\* total-time check
GetActionEnd(outcome, timedOut, overBudget) ==
  IF ~catchExceptions
    THEN (IF outcome = "return" THEN "next" ELSE "raised")
    ELSE IF timedOut \/ outcome # "return" \/ overBudget THEN "crash"
    ELSE "next"

\* run(): "Solicit an action", with the time accounting of fault isolation
GetAction ==
  /\ pc = "solicit"
  /\ Len(moveHistory) < MaxMoves
  /\ \E a \in ActionInputs, outcome \in CallOutcomes, d \in 0..MaxCallTime :
       LET i == agentIndex
           called == ~(catchExceptions /\ skip_action)
           timedOut == skip_action \/ outcome = "timeout"
           returned == ~timedOut /\ outcome = "return"
           mt == move_time + d
           warned == returned /\ mt > getMoveWarningTime(i)
           warnings == totalAgentTimeWarnings[i + 1] + (IF warned THEN 1 ELSE 0)
           overWarned == warned /\ warnings > getMaxTimeWarnings(i)
           accounted == returned /\ ~overWarned
           total == totalAgentTimes[i + 1] + (IF accounted THEN mt ELSE 0)
           overTotal == accounted /\ total > getMaxTotalTime(i)
           end == GetActionEnd(outcome, timedOut, overWarned \/ overTotal)
       IN /\ (outcome = "timeout") => catchExceptions
          /\ AgentCrashOn(end = "crash", i)
          /\ agentCall' = (IF called
                             THEN [hook |-> "getAction", agentIndex |-> i,
                                   outcome |-> outcome,
                                   duration |-> IF outcome = "return" THEN d ELSE 0]
                             ELSE NoAgentCall)
          /\ agentTimeout' = (IF catchExceptions /\ (timedOut \/ overWarned \/ overTotal)
                                THEN TRUE ELSE agentTimeout)
          /\ action' = (IF called /\ outcome = "return" THEN a ELSE None)
          /\ move_time' = (IF catchExceptions /\ returned THEN mt ELSE move_time)
          /\ totalAgentTimeWarnings' = (IF catchExceptions
                                          THEN [totalAgentTimeWarnings EXCEPT ![i + 1] = warnings]
                                          ELSE totalAgentTimeWarnings)
          /\ totalAgentTimes' = (IF catchExceptions
                                   THEN [totalAgentTimes EXCEPT ![i + 1] = total]
                                   ELSE totalAgentTimes)
          /\ raised' = (IF end = "raised" THEN "AgentFault" ELSE raised)
          /\ pc' = PcAfter(end, "execute")
          /\ SetStreams(GetActionStreams(outcome, end))
  /\ UNCHANGED <<layout, agents, catchExceptions, startingIndex, state, moveHistory,
                 numMoves, loopIndex, agentIndex, skip_action, observation,
                 registered, finalCalls, displayFinished, successorCall>>

\* the exception generateSuccessor raises, by the names of the error kinds
ErrorKind(status) ==
  CASE status = "illegal" -> "IllegalAction"
    [] status = "terminal" -> "TerminalStateViolation"
    [] OTHER -> status

\* run(): "Execute the action": the call that produces the next snapshot
ApplyAction(i) ==
  IF catchExceptions \/ HasGetResult
    THEN getResult(layout, state, i, action)
    ELSE generateSuccessor(layout, state, i, action)

\* a turn that skips rules.process: the game is not over after a won or lost
\* state
ExecuteResultUnprocessed(i, r) ==
  /\ moveHistory' = Append(moveHistory, <<i, action>>)
  /\ SetStreams(ExecuteStreams(r.status))
  /\ state' = (IF r.status = "ok" THEN r.state ELSE state)
  /\ successorCall' = (IF r.status = "AttributeError" THEN successorCall
                       ELSE SuccessorCallOf(state, i, action, r))
  /\ raised' = (IF r.status # "ok" /\ ~catchExceptions THEN ErrorKind(r.status) ELSE raised)
  /\ IF r.status = "ok"
       THEN /\ UNCHANGED <<gameOver, agentCrashed, crashCalls>>
            /\ numMoves' = (IF i = numAgents + 1 THEN numMoves + 1 ELSE numMoves)
            /\ agentIndex' = (i + 1) % numAgents
            /\ loopIndex' = 0
            /\ pc' = "observe"
       ELSE /\ AgentCrashOn(catchExceptions, i)
            /\ UNCHANGED <<numMoves, agentIndex, loopIndex>>
            /\ pc' = (IF catchExceptions THEN "done" ELSE "raised")

\* the rest of the turn, given the result r of that call: the assignment to
\* self.state or the exception, display.update, rules.process, next agent
ExecuteResult(i, r) ==
  /\ moveHistory' = Append(moveHistory, <<i, action>>)
  /\ SetStreams(ExecuteStreams(r.status))
  /\ state' = (IF r.status = "ok" THEN r.state ELSE state)
  /\ successorCall' = (IF r.status = "AttributeError" THEN successorCall
                       ELSE SuccessorCallOf(state, i, action, r))
  /\ raised' = (IF r.status # "ok" /\ ~catchExceptions THEN ErrorKind(r.status) ELSE raised)
  /\ IF r.status = "ok"
       THEN /\ gameOver' = (IF isWin(r.state) \/ isLose(r.state) THEN TRUE ELSE gameOver)
            /\ UNCHANGED <<agentCrashed, crashCalls>>
            /\ numMoves' = (IF i = numAgents + 1 THEN numMoves + 1 ELSE numMoves)
            /\ agentIndex' = (i + 1) % numAgents
            /\ loopIndex' = 0
            /\ pc' = (IF isWin(r.state) \/ isLose(r.state) THEN "final" ELSE "observe")
       ELSE /\ AgentCrashOn(catchExceptions, i)
            /\ UNCHANGED <<numMoves, agentIndex, loopIndex>>
            /\ pc' = (IF catchExceptions THEN "done" ELSE "raised")

ExecuteAction ==
  /\ pc = "execute"
  /\ ExecuteResult(agentIndex, ApplyAction(agentIndex))
  /\ agentCall' = NoAgentCall
  /\ UNCHANGED <<layout, agents, catchExceptions, startingIndex, agentTimeout,
                 totalAgentTimes, totalAgentTimeWarnings, move_time, skip_action,
                 observation, action, registered, finalCalls, displayFinished>>

\* a shutdown that goes to display.finish() without calling any final hook
FinalSkipped ==
  /\ pc = "final"
  /\ pc' = "finish"
  /\ agentCall' = NoAgentCall
  /\ UNCHANGED <<muteAgents, stdout, OLD_STDOUT, grid, gridCall, copied>>
  /\ UNCHANGED <<layout, agents, catchExceptions, startingIndex, state, moveHistory,
                 gameOver, agentCrashed, agentTimeout, crashCalls, totalAgentTimes,
                 totalAgentTimeWarnings, numMoves, loopIndex, agentIndex, move_time,
                 skip_action, observation, action, registered, finalCalls, raised,
                 displayFinished, successorCall>>

\* run(): shutdown loop "inform a learning agent of the game result"
Final ==
  /\ pc = "final"
  /\ \E outcome \in {"return", "raise"} :
       LET i == loopIndex
           called == agents[i + 1].final
           end == IF ~called \/ outcome = "return" THEN "next"
                  ELSE IF catchExceptions THEN "crash" ELSE "raised"
       IN /\ AgentCrashOn(end = "crash", i)
          /\ agentCall' = (IF called
                             THEN [hook |-> "final", agentIndex |-> i, outcome |-> outcome,
                                   duration |-> 0]
                             ELSE NoAgentCall)
          /\ finalCalls' = (IF called /\ outcome = "return"
                              THEN [finalCalls EXCEPT ![i + 1] = @ + 1] ELSE finalCalls)
          /\ raised' = (IF end = "raised" THEN "AgentFault" ELSE raised)
          /\ pc' = PcAfter(end, IF i + 1 < numAgents THEN "final" ELSE "finish")
          /\ loopIndex' = (IF end = "next" /\ i + 1 < numAgents THEN i + 1 ELSE i)
          /\ SetStreams(FinalStreams(i, called, outcome))
  /\ UNCHANGED <<layout, agents, catchExceptions, startingIndex, state, moveHistory,
                 agentTimeout, totalAgentTimes, totalAgentTimeWarnings, numMoves,
                 agentIndex, move_time, skip_action, observation, action,
                 registered, displayFinished, successorCall>>

\* run(): self.display.finish() and return
Finish ==
  /\ pc = "finish"
  /\ displayFinished' = TRUE
  /\ pc' = "done"
  /\ agentCall' = NoAgentCall
  /\ UNCHANGED <<muteAgents, stdout, OLD_STDOUT, grid, gridCall, copied>>
  /\ UNCHANGED <<layout, agents, catchExceptions, startingIndex, state, moveHistory,
                 gameOver, agentCrashed, agentTimeout, crashCalls, totalAgentTimes,
                 totalAgentTimeWarnings, numMoves, loopIndex, agentIndex, move_time,
                 skip_action, observation, action, registered, finalCalls, raised,
                 successorCall>>

Next ==
  \/ RegisterInitialState
  \/ ObservationFunction
  \/ GetAction
  \/ ExecuteAction
  \/ Final
  \/ Finish

\* one run of a game: Game.run() with arbitrary agents
Spec == Init /\ [][Next]_vars

\* ------------------------------------------------------------------------
\* The rule engine called directly, as agents and replayGame call it:
\* any agent index and any action on the current snapshot
\* ------------------------------------------------------------------------

EngineInit ==
  /\ layout \in Layouts
  /\ GameInit([k \in 1..Len(layout.agentPositions) |-> PlainAgent], FALSE, 0)
  /\ muteAgents = FALSE
  /\ grid = NoGrid
  /\ pc = "engine"

\* the effect of one call state.generateSuccessor(i, a) that ended as r: the
\* caller keeps the successor, or the input state when the call raised
GenerateSuccessorResult(i, a, r) ==
  /\ successorCall' = SuccessorCallOf(state, i, a, r)
  /\ state' = (IF r.status = "ok" THEN r.state ELSE r.pred)
  /\ moveHistory' = (IF r.status = "ok" THEN Append(moveHistory, <<i, a>>) ELSE moveHistory)

GenerateSuccessor ==
  /\ pc = "engine"
  /\ Len(moveHistory) < MaxMoves
  /\ \E i \in AgentIndexes(state), a \in ActionInputs :
       GenerateSuccessorResult(i, a, generateSuccessor(layout, state, i, a))
  /\ UNCHANGED <<muteAgents, stdout, OLD_STDOUT, grid, gridCall, copied>>
  /\ UNCHANGED <<layout, agents, catchExceptions, startingIndex, gameOver,
                 agentCrashed, agentTimeout, crashCalls, totalAgentTimes,
                 totalAgentTimeWarnings, numMoves, pc, loopIndex, agentIndex,
                 move_time, skip_action, observation, action, registered,
                 finalCalls, displayFinished, raised, agentCall>>

EngineNext == GenerateSuccessor

EngineSpec == EngineInit /\ [][EngineNext]_vars

\* ------------------------------------------------------------------------
\* The rule engine and deepCopy called directly: a deep copy is taken of a
\* snapshot the engine produced
\* ------------------------------------------------------------------------

\* state.deepCopy() on the current snapshot
DeepCopy ==
  /\ pc = "engine"
  /\ copied' = deepCopy(state)
  /\ pc' = "copied"
  /\ UNCHANGED <<layout, agents, catchExceptions, startingIndex, state, moveHistory,
                 gameOver, agentCrashed, agentTimeout, crashCalls, totalAgentTimes,
                 totalAgentTimeWarnings, numMoves, loopIndex, agentIndex, move_time,
                 skip_action, observation, action, registered, finalCalls,
                 displayFinished, raised, muteAgents, stdout, OLD_STDOUT, grid,
                 gridCall, agentCall, successorCall>>

CopyNext ==
  \/ GenerateSuccessor
  \/ DeepCopy

CopySpec == EngineInit /\ [][CopyNext]_vars

\* ------------------------------------------------------------------------
\* replayGame (src/pacman.py): re-running the rule engine over a recorded
\* history from the initial state of the layout
\* ------------------------------------------------------------------------

\* one iteration of "for action in actions": state.generateSuccessor(*action);
\* a raised exception ends the replay
ReplayStep(r, entry) ==
  IF r.status # "ok" THEN r
  ELSE generateSuccessor(layout, r.state, entry[1], entry[2])

RECURSIVE ReplayFrom(_, _, _)
ReplayFrom(r, history, k) ==
  IF k > Len(history) THEN r ELSE ReplayFrom(ReplayStep(r, history[k]), history, k + 1)

Replay(history) ==
  ReplayFrom([status |-> "ok", state |-> InitialState(layout), pred |-> None], history, 1)

\* ------------------------------------------------------------------------
\* Properties of the turn scheduler (checked under Spec)
\* ------------------------------------------------------------------------

\* run() is at a turn boundary (the top of the main loop) or past the loop
AtTurnBoundary == pc \in {"observe", "final", "finish", "done"}

\* C1: with fault isolation, a getAction call that times out ends the run in
\* the same step: gameOver, agentCrashed and agentTimeout are set,
\* rules.agentCrash is called with the index of that agent, and state and
\* moveHistory are what they were before the call; after run() has returned
\* nothing is applied or recorded any more.
C1_TimeoutEndsRun ==
  [][ /\ (catchExceptions /\ pc = "solicit" /\ agentCall'.hook = "getAction"
            /\ agentCall'.outcome = "timeout")
         => /\ agentCall'.agentIndex = agentIndex
            /\ pc' = "done"
            /\ gameOver' /\ agentCrashed' /\ agentTimeout'
            /\ crashCalls' = Append(crashCalls, agentIndex)
            /\ state' = state
            /\ moveHistory' = moveHistory
      /\ (pc = "done") => (state' = state /\ moveHistory' = moveHistory) ]_vars

\* C1 witness: a run ended by a getAction timeout
C1_Witness ==
  /\ catchExceptions /\ pc = "done"
  /\ agentCall.hook = "getAction" /\ agentCall.outcome = "timeout"
  /\ agentTimeout /\ crashCalls = <<agentCall.agentIndex>>

\* the step from the unprimed to the primed state is one in which an agent
\* fault arises during startup or during a turn: a hook or getAction raised
\* or timed out (startup, action), the timeout left over from the
\* observation, an exceeded warning count or total time, an action that is
\* not legal for the agent
FaultStep ==
  \/ /\ pc \in {"startup", "observe", "solicit"}
     /\ agentCall'.outcome = "raise"
  \/ /\ pc \in {"startup", "solicit"}
     /\ agentCall'.outcome = "timeout"
  \/ /\ pc = "solicit" /\ skip_action
  \/ /\ pc = "solicit" /\ agentCall'.outcome = "return"
     /\ \/ totalAgentTimeWarnings'[agentIndex + 1] > getMaxTimeWarnings(agentIndex)
        \/ totalAgentTimes'[agentIndex + 1] > getMaxTotalTime(agentIndex)
  \/ /\ pc = "execute"
     /\ ~InSeq(getLegalActions(layout, state, agentIndex), action)

\* the agent whose callback or action a step of run() is about
Offender == IF pc = "startup" THEN loopIndex ELSE agentIndex

\* C2: with fault isolation, every agent fault during startup or during a
\* turn makes run() return normally (nothing is raised to the caller) with
\* gameOver and agentCrashed set, rules.agentCrash called exactly once, with
\* the index of the offending agent, and game.state left as it was.
C2_FaultIsolated ==
  [][ (catchExceptions /\ FaultStep)
        => /\ pc' = "done" /\ raised' = None
           /\ gameOver' /\ agentCrashed'
           /\ crashCalls' = <<Offender>>
           /\ state' = state ]_vars

\* C2 witness: a run ended by an illegal action of a ghost during its turn
C2_Witness ==
  /\ catchExceptions /\ pc = "done" /\ agentCrashed /\ ~agentTimeout
  /\ moveHistory # <<>> /\ agentIndex > 0
  /\ ~InSeq(getLegalActions(layout, state, agentIndex), action)
  /\ crashCalls = <<agentIndex>>

\* C3 (as claimed): with fault isolation, a legal action returned within all
\* time budgets raises no fault: state becomes the successor the rule engine
\* computes, the move is appended to moveHistory and the turn passes to the
\* next agent (or the run ends by win or lose).
C3_LegalActionApplied ==
  [][ (catchExceptions /\ pc = "execute"
         /\ InSeq(getLegalActions(layout, state, agentIndex), action))
        => /\ ~agentCrashed'
           /\ state' = generateSuccessor(layout, state, agentIndex, action).state
           /\ moveHistory' = Append(moveHistory, <<agentIndex, action>>)
           /\ agentIndex' = (agentIndex + 1) % numAgents
           /\ pc' \in {"observe", "final"} ]_vars

\* C4 (as claimed): at every turn boundary and when run() has ended by win,
\* lose or an isolated fault, replaying moveHistory from the initial state
\* succeeds on every entry and yields a state equal to game.state.
C4_HistoryReplays ==
  AtTurnBoundary =>
    \A r \in {Replay(moveHistory)} : r.status = "ok" /\ StateEq(r.state, state)

\* ------------------------------------------------------------------------
\* Properties of the rule engine (checked under EngineSpec), stated on the
\* latest call of generateSuccessor: its input c.pred, its arguments, how it
\* ended, and the snapshot the caller holds afterwards (state)
\* ------------------------------------------------------------------------

\* the call was made on a state that is won or lost
OnTerminal(c) == c.status # None /\ (c.pred.win \/ c.pred.lose)

\* the call was made on an active state with an action that is legal
OnLegal(c) ==
  /\ c.status # None /\ ~c.pred.win /\ ~c.pred.lose
  /\ InSeq(getLegalActions(layout, c.pred, c.agentIndex), c.action)

\* the state of the transition of call c just before checkDeath
Before(c) == BeforeCheckDeath(layout, c.pred, c.agentIndex, c.action)

\* ghost g is within the collision tolerance of Pacman in t
InContact(t, g) ==
  canKill(getPacmanPosition(t), t.agentStates[g + 1].configuration.pos)

\* the ghosts checkDeath checks in the transition of call c and finds within
\* the tolerance in t: all ghosts after Pacman's move, the mover after a ghost's
Colliding(c, t) ==
  {g \in GhostIndexes(t) : (c.agentIndex = 0 \/ g = c.agentIndex) /\ InContact(t, g)}

\* those of them that are not scared / scared when they are checked
Killers(c, t) == {g \in Colliding(c, t) : t.agentStates[g + 1].scaredTimer = 0}

Scared(c, t) == {g \in Colliding(c, t) : t.agentStates[g + 1].scaredTimer > 0}

\* C5: on a state with win or lose set, generateSuccessor fails for every
\* agent index and action (also for the calls not made), returns no
\* successor and leaves the state as it was, so Win and Lose are absorbing.
C5_TerminalHasNoSuccessor ==
  /\ OnTerminal(successorCall)
       => /\ successorCall.status = "terminal"
          /\ successorCall.result = None
          /\ successorCall.predAfter = successorCall.pred
          /\ state = successorCall.pred
  /\ (state.win \/ state.lose)
       => \A i \in AgentIndexes(state), a \in ActionInputs :
            \A r \in {generateSuccessor(layout, state, i, a)} :
              r.status = "terminal" /\ r.state = None /\ r.pred = state

\* C5 witness: a successor was requested from a lost state
C5_Witness ==
  /\ successorCall.status = "terminal" /\ successorCall.pred.lose
  /\ state = successorCall.pred

\* C6: win and lose are never both set in a state reached by legal
\* transitions, also when the last food is eaten while a ghost that is not
\* scared touches Pacman.
C6_WinLoseExclusive == ~(state.win /\ state.lose)

\* C6 witness: Pacman ate the last food in contact with a ghost that is not scared
C6_Witness ==
  /\ successorCall.status = "ok" /\ successorCall.agentIndex = 0
  /\ state.win /\ successorCall.result = state
  /\ Killers(successorCall, Before(successorCall)) # {}

\* the call is a Pacman move onto the only food cell left, with no collision
LastFoodMove(c, t) ==
  /\ c.agentIndex = 0
  /\ Cardinality(c.pred.food) = 1
  /\ CellOf(getPacmanPosition(t)) \in c.pred.food
  /\ Colliding(c, t) = {}

\* C7 (amended): a legal Pacman move onto the last food cell, with no ghost
\* collision in the transition, yields win and a score of the predecessor's
\* plus the item reward plus the win bonus minus the time penalty of the
\* move: +509 (10 + 500 - 1).
C7_WinScore ==
  OnLegal(successorCall) =>
    \A t \in {Before(successorCall)} :
      LastFoodMove(successorCall, t)
        => /\ state.win /\ ~state.lose
           /\ state.score = successorCall.pred.score + FOOD_REWARD + WIN_BONUS - TIME_PENALTY

\* C7 (as claimed): the score of that successor is the predecessor's + 510.
C7_WinScoreOriginal ==
  OnLegal(successorCall) =>
    \A t \in {Before(successorCall)} :
      LastFoodMove(successorCall, t)
        => /\ state.win
           /\ state.score = successorCall.pred.score + FOOD_REWARD + WIN_BONUS

\* C7 witness: the first move of a game eats the only food: score 509
C7_Witness ==
  /\ OnLegal(successorCall) /\ successorCall.pred.score = 0
  /\ LastFoodMove(successorCall, Before(successorCall))
  /\ state.win /\ state.score = 509

\* the score after the transition of call c, from the score changes of the
\* move (t.scoreChange: time penalty, food, win bonus) and of each collision
ScoreAfter(c, t) ==
  c.pred.score + t.scoreChange
    + GHOST_BONUS * Cardinality(Scared(c, t))
    - (IF t.win THEN 0 ELSE LOSE_PENALTY * Cardinality(Killers(c, t)))

\* C8 (amended): when a checked ghost with scaredTimer = 0 is within the
\* tolerance and win is not set, the successor has lose set and the penalty
\* 500 is subtracted for that ghost on top of the other score changes of the
\* transition; the score is exactly the predecessor's minus 500 on a ghost's
\* own turn, while Pacman's turn also carries its time penalty of 1.
C8_LosePenalty ==
  OnLegal(successorCall) =>
    \A t \in {Before(successorCall)} :
      (Killers(successorCall, t) # {} /\ ~t.win)
        => /\ state.lose /\ ~state.win
           /\ state.score = ScoreAfter(successorCall, t)
           /\ (successorCall.agentIndex # 0
                 => state.score = successorCall.pred.score - LOSE_PENALTY)
           /\ (successorCall.agentIndex = 0
                 => state.score <= successorCall.pred.score - LOSE_PENALTY - TIME_PENALTY
                                   + FOOD_REWARD
                                   + GHOST_BONUS * Cardinality(Scared(successorCall, t)))

\* C8 (as claimed): in every such transition the successor's score is the
\* predecessor's minus 500.
C8_LosePenaltyOriginal ==
  OnLegal(successorCall) =>
    \A t \in {Before(successorCall)} :
      (Killers(successorCall, t) # {} /\ ~t.win)
        => /\ state.lose
           /\ state.score = successorCall.pred.score - LOSE_PENALTY

\* C8 witness: Pacman moved into a ghost that is not scared
C8_Witness ==
  /\ OnLegal(successorCall) /\ successorCall.agentIndex = 0
  /\ Killers(successorCall, Before(successorCall)) # {}
  /\ state.lose /\ state.score < successorCall.pred.score - LOSE_PENALTY

\* C9: a checked ghost with scaredTimer > 0 within the tolerance is eaten:
\* 200 is added to the score for it, in the successor it has its start
\* configuration (position and facing) and timer 0 and is marked eaten, and
\* lose is set only if some ghost that is not scared collided as well.
C9_ScaredGhostEaten ==
  OnLegal(successorCall) =>
    \A t \in {Before(successorCall)} :
      \A g \in Scared(successorCall, t) :
        /\ state.agentStates[g + 1].configuration =
             InitialState(layout).agentStates[g + 1].configuration
        /\ state.agentStates[g + 1].scaredTimer = 0
        /\ state.eaten[g + 1]
        /\ state.score = ScoreAfter(successorCall, t)
        /\ state.lose => Killers(successorCall, t) # {}

\* C9 witness: a scared ghost walked into Pacman on its own turn
C9_Witness ==
  /\ OnLegal(successorCall) /\ successorCall.agentIndex > 0
  /\ Scared(successorCall, Before(successorCall)) = {successorCall.agentIndex}
  /\ state.eaten[successorCall.agentIndex + 1] /\ ~state.lose
  /\ state.score = successorCall.pred.score + GHOST_BONUS

\* C10: on an active state, an action outside the agent's legal-action set
\* makes generateSuccessor fail with the illegal-action error, return no
\* successor and leave the input state as it was.
C10_IllegalActionRejected ==
  (/\ successorCall.status # None
   /\ ~successorCall.pred.win /\ ~successorCall.pred.lose
   /\ ~InSeq(getLegalActions(layout, successorCall.pred, successorCall.agentIndex),
             successorCall.action))
    => /\ successorCall.status = "illegal"
       /\ successorCall.result = None
       /\ successorCall.predAfter = successorCall.pred
       /\ state = successorCall.pred

\* C10 witness: an illegal action was rejected on an active mid-game state
C10_Witness ==
  /\ successorCall.status = "illegal"
  /\ moveHistory # <<>>
  /\ state = successorCall.pred

\* ------------------------------------------------------------------------
\* Properties of the legal-action sets and of the food (checked under
\* EngineSpec)
\* ------------------------------------------------------------------------

\* the four directions of movement
Cardinals == {NORTH, SOUTH, EAST, WEST}

\* the position lies on a grid point
OnGrid(pos) == pos[1] % HalfCells = 0 /\ pos[2] % HalfCells = 0

\* the cardinal directions whose destination cell, seen from the grid point
\* pos, is not a wall
OpenCardinals(pos) ==
  {d \in Cardinals :
     <<CellOf(pos)[1] + DirVec(d)[1], CellOf(pos)[2] + DirVec(d)[2]>> \notin layout.walls}

\* the elements of a list
SeqSet(seq) == {seq[k] : k \in 1..Len(seq)}

\* the list holds no action twice
NoDuplicates(seq) == Len(seq) = Cardinality(SeqSet(seq))

\* the legal-action set the rules describe for a ghost with configuration conf
GhostActionSet(conf) ==
  IF ~OnGrid(conf.pos) THEN {conf.direction}
  ELSE IF OpenCardinals(conf.pos) \subseteq {reverseDirection(conf.direction)}
    THEN OpenCardinals(conf.pos)
    ELSE OpenCardinals(conf.pos) \ {reverseDirection(conf.direction)}

\* C11: on an active state every ghost's legal actions are its facing alone
\* when it is between grid points, and otherwise the cardinal directions that
\* do not lead into a wall without the reverse of its facing, unless the
\* reverse is the only one, which is then the whole set; Stop is never legal.
C11_GhostLegalActions ==
  ~(state.win \/ state.lose) =>
    \A g \in GhostIndexes(state) :
      \A legal \in {getLegalActions(layout, state, g)} :
        /\ NoDuplicates(legal)
        /\ STOP \notin SeqSet(legal)
        /\ SeqSet(legal) = GhostActionSet(state.agentStates[g + 1].configuration)

\* C11 witness: a ghost that moved into a dead end may only reverse
C11_Witness ==
  /\ ~(state.win \/ state.lose)
  /\ \E g \in GhostIndexes(state) :
       /\ OnGrid(state.agentStates[g + 1].configuration.pos)
       /\ state.agentStates[g + 1].configuration.direction \in Cardinals
       /\ getLegalActions(layout, state, g) =
            <<reverseDirection(state.agentStates[g + 1].configuration.direction)>>

\* C12: on an active state with Pacman on a grid point, Pacman's legal
\* actions are the cardinal directions that do not lead into a wall, and
\* Stop; Stop is legal for no ghost.
C12_PacmanLegalActions ==
  ~(state.win \/ state.lose) =>
    /\ OnGrid(getPacmanPosition(state)) =>
         \A legal \in {getLegalActions(layout, state, 0)} :
           /\ NoDuplicates(legal)
           /\ SeqSet(legal) = OpenCardinals(getPacmanPosition(state)) \cup {STOP}
    /\ \A g \in GhostIndexes(state) :
         STOP \notin SeqSet(getLegalActions(layout, state, g))

\* C12 witness: Pacman, after some moves, next to a wall: Stop and some but
\* not all cardinal directions are legal, and the ghosts have legal actions
C12_Witness ==
  /\ ~(state.win \/ state.lose) /\ Len(moveHistory) >= 2
  /\ OnGrid(getPacmanPosition(state))
  /\ STOP \in SeqSet(getLegalActions(layout, state, 0))
  /\ Len(getLegalActions(layout, state, 0)) \in 2..4
  /\ \A g \in GhostIndexes(state) : getLegalActions(layout, state, g) # <<>>

\* C13: on a state with win or lose set, getLegalActions returns the empty
\* list for Pacman and for every ghost.
C13_TerminalNoLegalActions ==
  (state.win \/ state.lose) =>
    \A i \in AgentIndexes(state) : getLegalActions(layout, state, i) = <<>>

\* C13 witness: a won state, on which no agent has a legal action
C13_Witness ==
  /\ state.win /\ successorCall.status = "ok" /\ successorCall.result = state
  /\ \A i \in AgentIndexes(state) : getLegalActions(layout, state, i) = <<>>

\* C14: food only disappears: in every transition the food of the successor
\* is a subset of the predecessor's, so the count never increases and a cell
\* without food never regains it.
C14_FoodOnlyDisappears ==
  [][ /\ state'.food \subseteq state.food
      /\ Cardinality(state'.food) <= Cardinality(state.food)
      /\ \A c \in InitialState(layout).food : c \notin state.food => c \notin state'.food ]_vars

\* C14 witness: Pacman ate one food cell and another is left
C14_Witness ==
  /\ successorCall.status = "ok" /\ successorCall.result = state
  /\ state.food # {} /\ state.food # successorCall.pred.food
  /\ state.food \subseteq successorCall.pred.food

\* the states of the same game that are equal by value to the active state s
\* (GameStateData.__eq__) and differ in what __eq__ does not compare: the
\* _eaten list e, which earlier calls on s may have written, and the record
\* of the transition that produced s (scoreChange, _foodEaten, _capsuleEaten,
\* _agentMoved): as in s, as after a move that ate, as in a fresh state
EqualByValue(s, e, k) ==
  CASE k = 1 -> [s EXCEPT !.eaten = e]
    [] k = 2 -> [s EXCEPT !.eaten = e, !.scoreChange = GHOST_BONUS,
                          !.foodEaten = CellOf(getPacmanPosition(s)),
                          !.capsuleEaten = CellOf(getPacmanPosition(s)),
                          !.agentMoved = 0]
    [] OTHER -> [s EXCEPT !.eaten = e, !.scoreChange = 0, !.foodEaten = None,
                          !.capsuleEaten = None, !.agentMoved = None]

\* two results of generateSuccessor are equal by value, with equal flags
SameResult(r, q) ==
  /\ r.status = "ok" /\ q.status = "ok"
  /\ StateEq(r.state, q.state)
  /\ r.state.win = q.state.win /\ r.state.lose = q.state.lose

\* the call c, made again on the state t, gives a result equal by value
SameAgain(c, t) ==
  /\ StateEq(t, c.pred)
  /\ SameResult(generateSuccessor(layout, t, c.agentIndex, c.action),
                [status |-> c.status, state |-> c.result])

\* C15: the rule engine is deterministic: on every state equal by value to
\* the active state a legal action was applied to, and on that state as
\* the call itself left it, the same agent index and action yield a successor
\* equal by value to the one the call returned, with the same win and lose.
C15_Deterministic ==
  OnLegal(successorCall) =>
    /\ \A e \in [1..NumAgents(successorCall.pred) -> BOOLEAN], k \in 1..3 :
         SameAgain(successorCall, EqualByValue(successorCall.pred, e, k))
    /\ SameAgain(successorCall, successorCall.predAfter)
    /\ successorCall.result = state

\* C15 witness: a call that wrote the _eaten list of its input (a scared ghost
\* walked into Pacman) gives a result equal by value when it is made again
C15_Witness ==
  /\ OnLegal(successorCall) /\ successorCall.agentIndex > 0
  /\ successorCall.predAfter # successorCall.pred
  /\ StateEq(successorCall.predAfter, successorCall.pred)
  /\ SameResult(generateSuccessor(layout, successorCall.predAfter,
                                  successorCall.agentIndex, successorCall.action),
                [status |-> "ok", state |-> state])

\* ------------------------------------------------------------------------
\* Properties of the turn order, the time budgets and the startup protocol
\* (checked under Spec)
\* ------------------------------------------------------------------------

\* the agent whose turn the k-th move of a run is (k from 0)
TurnOf(k) == (startingIndex + k) % Len(agents)

\* run() is inside a turn: observing, soliciting or executing
InTurn == pc \in {"observe", "solicit", "execute"}

\* C16: agents take turns in round-robin order from startingIndex: the k-th
\* entry of moveHistory (k from 0) is a move of agent (startingIndex + k) mod N,
\* the agent observed, solicited and executed next is the one after the last
\* entry, and the callback of a step of a turn is made on that agent.
C16_RoundRobin ==
  /\ \A k \in 1..Len(moveHistory) : moveHistory[k][1] = TurnOf(k - 1)
  /\ InTurn => agentIndex = TurnOf(Len(moveHistory))
  /\ agentCall.hook \in {"observationFunction", "getAction"}
       => agentCall.agentIndex = TurnOf(Len(moveHistory))

\* C16 witness: more moves than agents have been made, the turn has wrapped
\* around to the starting agent and passed on
C16_Witness ==
  /\ Len(moveHistory) > Len(agents) /\ startingIndex > 0
  /\ InTurn /\ agentIndex = TurnOf(Len(moveHistory))

\* C17 (amended): with fault isolation, a timeout of observationFunction only
\* sets skip_action and the turn goes on to "Solicit an action"; there
\* getAction is not called: the turn ends as a timeout fault of that agent
\* (agentTimeout, agentCrashed, rules.agentCrash with its index), with state
\* and moveHistory as they were.
C17_ObservationTimeoutFatal ==
  [][ /\ (catchExceptions /\ pc = "observe"
            /\ agentCall'.hook = "observationFunction" /\ agentCall'.outcome = "timeout")
         => /\ skip_action' /\ pc' = "solicit"
            /\ ~gameOver' /\ agentTimeout' = agentTimeout /\ crashCalls' = crashCalls
      /\ (catchExceptions /\ pc = "solicit" /\ skip_action)
         => /\ agentCall' = NoAgentCall /\ action' = None
            /\ pc' = "done"
            /\ gameOver' /\ agentCrashed' /\ agentTimeout'
            /\ crashCalls' = Append(crashCalls, agentIndex)
            /\ state' = state /\ moveHistory' = moveHistory ]_vars

\* C17 (as claimed): after a timeout of observationFunction the turn goes on
\* with an unfiltered deep copy as the observation, getAction is solicited
\* from that agent, and the timeout is not fatal.
C17_ObservationTimeoutNotFatal ==
  [][ (catchExceptions /\ pc = "solicit" /\ skip_action)
        => /\ agentCall'.hook = "getAction" /\ agentCall'.agentIndex = agentIndex
           /\ observation' = "deepCopy"
           /\ ~agentTimeout' ]_vars

\* C17 witness: a run ended by the timeout of an observationFunction, with no
\* getAction call made
C17_Witness ==
  /\ catchExceptions /\ pc = "done" /\ skip_action
  /\ agentTimeout /\ agentCrashed /\ crashCalls = <<agentIndex>>
  /\ agentCall = NoAgentCall /\ moveHistory = <<>>

\* the step is a getAction call of the agent whose turn it is that returned,
\* under fault isolation
TimedMove ==
  /\ catchExceptions /\ pc = "solicit"
  /\ agentCall'.hook = "getAction" /\ agentCall'.outcome = "return"

\* the time of the move of that step: the observation and the action
MoveTime == move_time + agentCall'.duration

\* the move of that step exceeds the warning threshold
Warned == MoveTime > getMoveWarningTime(agentIndex)

\* after that step the agent is over its warning count or its total time
OverBudget ==
  \/ Warned /\ totalAgentTimeWarnings'[agentIndex + 1] > getMaxTimeWarnings(agentIndex)
  \/ totalAgentTimes'[agentIndex + 1] > getMaxTotalTime(agentIndex)

\* C18: with fault isolation, a move whose time exceeds the warning threshold
\* adds exactly one to the warning count of its agent (and no other move
\* adds any); when the count then exceeds the maximum, or the agent's total
\* time its budget, the run ends as a fault of that agent (agentTimeout,
\* agentCrashed, rules.agentCrash with its index) and the action returned is
\* neither applied nor appended to moveHistory; otherwise the turn goes on to
\* the execution of the action.
C18_TimeBudgets ==
  [][ TimedMove
        => /\ totalAgentTimeWarnings' =
                [totalAgentTimeWarnings EXCEPT ![agentIndex + 1] = @ + (IF Warned THEN 1 ELSE 0)]
           /\ \A k \in 1..Len(agents) :
                k # agentIndex + 1 => totalAgentTimes'[k] = totalAgentTimes[k]
           /\ OverBudget
                => /\ pc' = "done" /\ gameOver'
                   /\ agentTimeout' /\ agentCrashed'
                   /\ crashCalls' = Append(crashCalls, agentIndex)
                   /\ state' = state /\ moveHistory' = moveHistory
           /\ ~OverBudget
                => /\ pc' = "execute" /\ ~gameOver' /\ action' \in ActionInputs
                   /\ totalAgentTimes'[agentIndex + 1] = totalAgentTimes[agentIndex + 1] + MoveTime ]_vars

\* C18 witness: a run ended by the total-time budget, on a move that was
\* within the warning threshold
C18_Witness ==
  /\ catchExceptions /\ pc = "done" /\ agentTimeout /\ agentCrashed
  /\ agentCall.hook = "getAction" /\ agentCall.outcome = "return"
  /\ totalAgentTimeWarnings[agentIndex + 1] = 0
  /\ totalAgentTimes[agentIndex + 1] > getMaxTotalTime(agentIndex)
  /\ crashCalls = <<agentIndex>> /\ moveHistory = <<>>

\* the step is a callback of agent code that raised an exception
CallbackRaised ==
  /\ pc \in {"startup", "observe", "solicit", "final"}
  /\ agentCall'.hook # None /\ agentCall'.outcome = "raise"

\* the step executes an action the rule engine rejects
ActionRejected ==
  /\ pc = "execute"
  /\ ~InSeq(getLegalActions(layout, state, agentIndex), action)

\* the step is a getAction call that returned after more than the move
\* timeout, counted from the start of the turn (observation and action)
SlowMove ==
  /\ pc = "solicit"
  /\ agentCall'.hook = "getAction" /\ agentCall'.outcome = "return"
  /\ (IF agentCall.hook = "observationFunction" THEN agentCall.duration ELSE 0)
       + agentCall'.duration > getMoveTimeout(agentIndex)

\* the exception leaves run() with the step: nothing is isolated, no crash
\* is recorded, the state is not changed
Propagates ==
  /\ pc' = "raised" /\ raised' # None
  /\ state' = state
  /\ gameOver' = gameOver /\ ~agentCrashed' /\ crashCalls' = crashCalls

\* C19 (amended): without fault isolation an exception raised by agent code
\* and an action the rule engine rejects leave run() with the step they arise
\* in, after which run() does nothing more; the time budgets are not enforced:
\* a getAction that returns after more than the move timeout is no fault, the
\* turn goes on to execute its action.
C19_FaultsPropagate ==
  [][ ~catchExceptions
        => /\ CallbackRaised => (Propagates /\ raised' = "AgentFault"
                                            /\ moveHistory' = moveHistory)
           /\ ActionRejected => (Propagates /\ raised' = "IllegalAction")
           /\ SlowMove => /\ pc' = "execute" /\ raised' = None
                          /\ ~agentTimeout' /\ action' \in ActionInputs
           /\ pc = "raised" => UNCHANGED vars ]_vars

\* C19 (as claimed): without fault isolation each of the conditions, the
\* exceeded move timeout included, leaves run() with the step it arises in.
C19_AllFaultsPropagate ==
  [][ ~catchExceptions
        => /\ CallbackRaised => Propagates
           /\ ActionRejected => Propagates
           /\ SlowMove => Propagates ]_vars

\* C19 witness: a run without fault isolation in which, after some moves, an
\* illegal action left run() as an exception
C19_Witness ==
  /\ ~catchExceptions /\ pc = "raised" /\ raised = "IllegalAction"
  /\ Len(moveHistory) >= 2 /\ ~gameOver /\ crashCalls = <<>>

\* every agent that declares registerInitialState has had exactly one call of
\* it return, the others none
AllRegistered ==
  \A k \in 1..Len(agents) :
    registered[k] = IF agents[k].registerInitialState THEN 1 ELSE 0

\* the step is a registerInitialState call that raised or timed out under
\* fault isolation
StartupFault ==
  /\ catchExceptions /\ pc = "startup"
  /\ agentCall'.hook = "registerInitialState"
  /\ agentCall'.outcome \in {"raise", "timeout"}

\* C20: when observationFunction or getAction is called, and in every turn,
\* registerInitialState has returned exactly once for every agent that
\* declares it and never more than once for any agent; the hooks leave the
\* game state alone (each works on a copy); under fault isolation a
\* registerInitialState that raises or times out ends the run at once as a
\* crash of that agent, with moveHistory empty and the state still the initial
\* one, and nothing is called afterwards, so no getAction is ever made.
C20_StartupProtocol ==
  /\ []( /\ (agentCall.hook \in {"observationFunction", "getAction"} \/ InTurn)
              => AllRegistered
         /\ \A k \in 1..Len(agents) : registered[k] <= 1
         /\ pc = "startup"
              => /\ agentCall.hook \in {None, "registerInitialState"}
                 /\ moveHistory = <<>> /\ state = InitialState(layout) )
  /\ [][ /\ StartupFault
              => /\ pc' = "done" /\ gameOver' /\ agentCrashed'
                 /\ agentCall'.agentIndex = loopIndex
                 /\ crashCalls' = <<loopIndex>>
                 /\ agentTimeout' = (agentCall'.outcome = "timeout")
                 /\ moveHistory' = <<>> /\ state' = InitialState(layout)
         /\ pc = "done" => UNCHANGED vars ]_vars

\* C20 witness: the run ended in the startup loop by the timeout of a later
\* agent's registerInitialState, after the first agent's had returned
C20_Witness ==
  /\ catchExceptions /\ pc = "done"
  /\ agentCall.hook = "registerInitialState" /\ agentCall.outcome = "timeout"
  /\ agentCall.agentIndex >= 1 /\ registered[1] = 1
  /\ crashCalls = <<agentCall.agentIndex>>
  /\ moveHistory = <<>> /\ state = InitialState(layout)

\* run() has ended, by returning or by an exception that left it
RunEnded == pc \in {"done", "raised"}

\* the number of times final was invoked on agent k - 1: the calls that
\* returned and the call that raised, if it was this agent's
FinalInvocations(k) ==
  finalCalls[k]
    + (IF agentCall.hook = "final" /\ agentCall.outcome = "raise"
          /\ agentCall.agentIndex = k - 1 THEN 1 ELSE 0)

\* final was invoked on no agent
NoFinalInvoked ==
  \A k \in 1..Len(agents) : FinalInvocations(k) = 0

C22_FinishAfterFinalFault ==
  (RunEnded /\ agentCall.hook = "final" /\ agentCall.outcome = "raise")
    => displayFinished

\* the step is an agent fault: an agent that failed to load, a callback that
\* raised or timed out, the solicitation after a timed-out observation, a
\* move over its time budgets, or an action whose execution raises
RunFault ==
  \/ pc = "startup" /\ ~agents[loopIndex + 1].loaded
  \/ /\ pc \in {"startup", "observe", "solicit", "final"}
     /\ agentCall'.hook # None /\ agentCall'.outcome \in {"raise", "timeout"}
  \/ pc = "solicit" /\ catchExceptions /\ skip_action
  \/ TimedMove /\ OverBudget
  \/ pc = "execute" /\ ApplyAction(agentIndex).status # "ok"

\* C23 (amended): when run() returns, agentCrashed is true if and only if the
\* step that ended the run was an agent fault; a run that was not ended by a
\* fault ended on display.finish() after its loop stopped on a won or lost
\* state, with agentCrashed false. When the fault leaves run() as an exception
\* (no fault isolation) agentCrashed stays false: the exception, not the flag,
\* tells such a run from a won or lost one.
C23_CrashFlag ==
  /\ []( /\ agentCrashed => (pc = "done" /\ gameOver /\ ~displayFinished)
         /\ pc \in {"final", "finish"}
              => (~agentCrashed /\ gameOver /\ (isWin(state) \/ isLose(state)))
         /\ displayFinished
              => (pc = "done" /\ ~agentCrashed /\ (isWin(state) \/ isLose(state))) )
  /\ [][ (~RunEnded /\ RunEnded')
           => /\ pc' = "done" => (agentCrashed' <=> RunFault)
              /\ pc' = "raised" => (RunFault /\ ~agentCrashed' /\ ~catchExceptions)
              /\ ~RunFault => (pc = "finish" /\ displayFinished') ]_vars

\* C23 (as claimed): when run() has ended, by returning or by an exception,
\* agentCrashed is true if and only if an agent fault ended it.
C23_CrashFlagIffFault ==
  [][ (~RunEnded /\ RunEnded') => (agentCrashed' <=> RunFault) ]_vars

\* C23 witness: a run that returned after its loop stopped on a lost state,
\* with agentCrashed false
C23_Witness ==
  /\ pc = "done" /\ displayFinished /\ ~agentCrashed /\ gameOver
  /\ isLose(state) /\ Len(moveHistory) >= 2

\* C24 (as claimed): after every step of run(), however the callback of the
\* step ended and whether or not faults are isolated, sys.stdout is the sink
\* the process had before run() started, and mute() never remembered an
\* agent's buffer as the sink to go back to (no nested redirection).
C24_SinkRestored ==
  /\ stdout = ProcessSink
  /\ OLD_STDOUT \in {NoSink, ProcessSink}

\* ------------------------------------------------------------------------
\* Grid (src/game.py): the bit-packed representation
\* ------------------------------------------------------------------------

\* Grid.CELLS_PER_INT
CELLS_PER_INT == 30

\* the largest width and height of the grids the operations are called on
MaxGridSide == 3

\* a Python int
PyInt(n) == [type |-> "int", num |-> n, den |-> 1]

\* n / d of Python 3: true division, a float whatever n and d are
TrueDiv(n, d) == [type |-> "float", num |-> n, den |-> d]

\* Grid._cellIndexToPosition(index)
cellIndexToPosition(g, index) ==
  [x |-> TrueDiv(index, g.height), y |-> PyInt(index % g.height)]

\* how self[x][y] ends: indexing a list with a float is a TypeError, with an
\* int outside the list an IndexError
CellStatus(g, x, y) ==
  IF x.type # "int" THEN "TypeError"
  ELSE IF x.num >= g.width THEN "IndexError"
  ELSE IF y.type # "int" THEN "TypeError"
  ELSE IF y.num >= g.height THEN "IndexError"
  ELSE "ok"

\* the value of self[x][y]
CellValue(g, x, y) == g.data[x.num + 1][y.num + 1]

\* the grid after self[x][y] = v
SetCell(g, x, y, v) == [g EXCEPT !.data[x.num + 1][y.num + 1] = v]

\* the loop of Grid.packBits from cell i on
RECURSIVE PackLoop(_, _, _, _)
PackLoop(g, i, currentInt, bits) ==
  IF i = g.height * g.width
    THEN [status |-> "ok", bits |-> Append(bits, currentInt)]
    ELSE LET bit == CELLS_PER_INT - (i % CELLS_PER_INT) - 1
             pos == cellIndexToPosition(g, i)
             st == CellStatus(g, pos.x, pos.y)
         IN IF st # "ok" THEN [status |-> st, bits |-> <<>>]
            ELSE IF (i + 1) % CELLS_PER_INT = 0
              THEN PackLoop(g, i + 1, 0,
                            Append(bits, currentInt
                                     + (IF CellValue(g, pos.x, pos.y) THEN 2^bit ELSE 0)))
              ELSE PackLoop(g, i + 1,
                            currentInt + (IF CellValue(g, pos.x, pos.y) THEN 2^bit ELSE 0),
                            bits)

\* Grid.packBits(): (width, height, bitPackedInts...) or the exception
packBits(g) == PackLoop(g, 0, 0, <<g.width, g.height>>)

\* the loop of Grid._unpackInt from bit i on
RECURSIVE UnpackIntLoop(_, _, _, _)
UnpackIntLoop(packed, i, size, bools) ==
  IF i = size THEN bools
  ELSE IF packed >= 2^(CELLS_PER_INT - i - 1)
    THEN UnpackIntLoop(packed - 2^(CELLS_PER_INT - i - 1), i + 1, size, Append(bools, TRUE))
    ELSE UnpackIntLoop(packed, i + 1, size, Append(bools, FALSE))

\* Grid._unpackInt(packed, size): the bits, most significant first
unpackInt(packed, size) ==
  IF packed < 0 THEN [status |-> "ValueError", bools |-> <<>>]
  ELSE [status |-> "ok", bools |-> UnpackIntLoop(packed, 0, size, <<>>)]

\* the inner loop of Grid._unpackBits over the bits of one packed int, from
\* bit j on; it is left by break when every cell is filled
RECURSIVE UnpackBitLoop(_, _, _, _)
UnpackBitLoop(g, bools, j, cell) ==
  IF j > Len(bools) \/ cell = g.width * g.height
    THEN [status |-> "ok", grid |-> g, cell |-> cell]
    ELSE LET pos == cellIndexToPosition(g, cell)
             st == CellStatus(g, pos.x, pos.y)
         IN IF st # "ok" THEN [status |-> st, grid |-> g, cell |-> cell]
            ELSE UnpackBitLoop(SetCell(g, pos.x, pos.y, bools[j]), bools, j + 1, cell + 1)

\* the outer loop of Grid._unpackBits from the k-th packed int on
RECURSIVE UnpackLoop(_, _, _, _)
UnpackLoop(g, bits, k, cell) ==
  IF k > Len(bits) THEN [status |-> "ok", grid |-> g]
  ELSE LET u == unpackInt(bits[k], CELLS_PER_INT)
       IN IF u.status # "ok" THEN [status |-> u.status, grid |-> g]
          ELSE LET r == UnpackBitLoop(g, u.bools, 1, cell)
               IN IF r.status # "ok" THEN [status |-> r.status, grid |-> g]
                  ELSE UnpackLoop(r.grid, bits, k + 1, r.cell)

\* Grid._unpackBits(bits)
unpackBits(g, bits) == UnpackLoop(g, bits, 1, 0)

\* Grid(width, height, initialValue, bitRepresentation)
Grid(width, height, initialValue, bitRepresentation) ==
  LET g == [width |-> width, height |-> height,
            data |-> [x \in 1..width |-> [y \in 1..height |-> initialValue]]]
  IN IF bitRepresentation # <<>> THEN unpackBits(g, bitRepresentation)
     ELSE [status |-> "ok", grid |-> g]

\* reconstituteGrid(bitRep) for a tuple bitRep
reconstituteGrid(bitRep) ==
  Grid(bitRep[1], bitRep[2], FALSE, SubSeq(bitRep, 3, Len(bitRep)))

\* every grid of width by height cells, with any content
Grids(width, height) ==
  {[width |-> width, height |-> height, data |-> d]
     : d \in [1..width -> [1..height -> BOOLEAN]]}

\* a grid handed to the Grid operations
GridInit ==
  /\ layout = RoomLayout
  /\ GameInit([k \in 1..Len(layout.agentPositions) |-> PlainAgent], FALSE, 0)
  /\ muteAgents = FALSE
  /\ \E width \in 0..MaxGridSide, height \in 0..MaxGridSide :
       grid \in Grids(width, height)
  /\ pc = "grid"

\* g.packBits()
PackBits ==
  /\ pc = "grid"
  /\ gridCall' = [op |-> "packBits", status |-> packBits(grid).status,
                  bits |-> packBits(grid).bits, grid |-> grid]
  /\ pc' = "packed"
  /\ UNCHANGED <<layout, agents, catchExceptions, startingIndex, state, moveHistory,
                 gameOver, agentCrashed, agentTimeout, crashCalls, totalAgentTimes,
                 totalAgentTimeWarnings, numMoves, loopIndex, agentIndex, move_time,
                 skip_action, observation, action, registered, finalCalls,
                 displayFinished, raised, muteAgents, stdout, OLD_STDOUT, grid,
                 copied, agentCall, successorCall>>

\* reconstituteGrid(bits) on the tuple packBits returned
ReconstituteGrid ==
  /\ pc = "packed" /\ gridCall.status = "ok"
  /\ gridCall' = [op |-> "reconstituteGrid",
                  status |-> reconstituteGrid(gridCall.bits).status,
                  bits |-> gridCall.bits,
                  grid |-> reconstituteGrid(gridCall.bits).grid]
  /\ pc' = "unpacked"
  /\ UNCHANGED <<layout, agents, catchExceptions, startingIndex, state, moveHistory,
                 gameOver, agentCrashed, agentTimeout, crashCalls, totalAgentTimes,
                 totalAgentTimeWarnings, numMoves, loopIndex, agentIndex, move_time,
                 skip_action, observation, action, registered, finalCalls,
                 displayFinished, raised, muteAgents, stdout, OLD_STDOUT, grid,
                 copied, agentCall, successorCall>>

GridNext ==
  \/ PackBits
  \/ ReconstituteGrid

\* the Grid operations called on any small grid
GridSpec == GridInit /\ [][GridNext]_vars

\* C25 (as claimed): for every grid, packBits returns a tuple and
\* reconstituteGrid of that tuple returns a grid with the same width, height
\* and cell values.
C25_PackUnpackRoundTrip ==
  /\ gridCall.op = "packBits" => gridCall.status = "ok"
  /\ gridCall.op = "reconstituteGrid"
       => (gridCall.status = "ok" /\ gridCall.grid = grid)

\* C26 (as claimed): whatever the agent and the action, also when a scared
\* ghost is eaten on its own turn, the state handed to generateSuccessor is
\* after the call what it was before it, the eaten markers included.
C26_InputNotMutated ==
  successorCall.status # None => successorCall.predAfter = successorCall.pred

\* C27: in every loop iteration of run() (observation, solicitation,
\* execution) the game is not over and state is neither won nor lost, so no
\* transition is requested of a terminal state; once gameOver is set, by win,
\* lose or a fault, no observationFunction or getAction call is made and state
\* is not changed any more.
C27_NoTerminalViolation ==
  /\ []( /\ InTurn => (~gameOver /\ ~isWin(state) /\ ~isLose(state))
         /\ raised # "TerminalStateViolation"
         /\ (isWin(state) \/ isLose(state)) => gameOver )
  /\ [][ gameOver
           => /\ state' = state /\ moveHistory' = moveHistory /\ gameOver'
              /\ agentCall'.hook \notin {"observationFunction", "getAction"}
              /\ pc' \in {"final", "finish", "done", "raised"} ]_vars

\* C27 witness: the shutdown of a run whose last move won the game: the state
\* is the one that move produced
C27_Witness ==
  /\ pc = "finish" /\ gameOver /\ isWin(state)
  /\ successorCall.status = "ok" /\ successorCall.result = state
  /\ ~isWin(successorCall.pred) /\ Len(moveHistory) >= 1

\* the moves of moveHistory after which the turn order wrapped from the last
\* ghost back to agent 0
Wraps == {k \in 1..Len(moveHistory) : moveHistory[k][1] = numAgents - 1}

\* C28 (as claimed): while run() executes its turns without a fault, numMoves
\* is the number of times the turn order has wrapped past the last ghost back
\* to agent 0.
C28_NumMovesCountsRounds ==
  (~catchExceptions /\ pc \in {"observe", "solicit", "execute", "final", "finish"})
    => numMoves = Cardinality(Wraps)

\* the call is a Pacman move onto the only food cell left that ends within
\* the collision tolerance of a ghost that is not scared
LastFoodInContact(c, t) ==
  /\ c.agentIndex = 0
  /\ Cardinality(c.pred.food) = 1
  /\ CellOf(getPacmanPosition(t)) \in c.pred.food
  /\ Killers(c, t) # {}

\* C29: when one Pacman move eats the last food and ends within the collision
\* tolerance of a ghost that is not scared, win takes precedence: the
\* successor has win set and lose not set, and its score carries the food
\* reward, the win bonus and the time penalty of the move (and the bonus of
\* each scared ghost eaten) but no lose penalty.
C29_WinPrecedence ==
  OnLegal(successorCall) =>
    \A t \in {Before(successorCall)} :
      LastFoodInContact(successorCall, t)
        => /\ state.win /\ ~state.lose
           /\ state.food = {}
           /\ state.score = successorCall.pred.score + FOOD_REWARD + WIN_BONUS
                              - TIME_PENALTY
                              + GHOST_BONUS * Cardinality(Scared(successorCall, t))

\* C29 witness: Pacman ate the last food on the cell of a ghost that is not
\* scared and the score went up by 509
C29_Witness ==
  /\ OnLegal(successorCall)
  /\ LastFoodInContact(successorCall, Before(successorCall))
  /\ state.win /\ ~state.lose
  /\ state.score = successorCall.pred.score + 509

\* the call is a Pacman move onto a capsule cell
CapsuleMove(c, t) ==
  /\ c.agentIndex = 0
  /\ InSeq(c.pred.capsules, CellOf(getPacmanPosition(t)))

\* the ghosts that were not scared before the call and are within the
\* collision tolerance of Pacman after its move
Touched(c, t) ==
  {g \in GhostIndexes(t) : c.pred.agentStates[g + 1].scaredTimer = 0 /\ InContact(t, g)}

\* C30: in a Pacman move, consumption comes before collision resolution: when
\* Pacman moves onto a capsule cell and a ghost with scaredTimer = 0 is within
\* the tolerance there, the capsule has made the ghost scared (timer
\* SCARED_TIME) by the time collisions are checked, so the ghost is eaten:
\* 200 is added for it, in the successor it is at its start configuration
\* with timer 0 and marked eaten, and lose is not set.
C30_ConsumeBeforeCollide ==
  OnLegal(successorCall) =>
    \A t \in {Before(successorCall)} :
      CapsuleMove(successorCall, t) =>
        /\ ~state.lose
        /\ state.capsules = ListRemove(successorCall.pred.capsules,
                                       CellOf(getPacmanPosition(t)))
        /\ \A g \in Touched(successorCall, t) :
             /\ t.agentStates[g + 1].scaredTimer = SCARED_TIME
             /\ g \in Scared(successorCall, t)
             /\ state.agentStates[g + 1].configuration =
                  InitialState(layout).agentStates[g + 1].configuration
             /\ state.agentStates[g + 1].scaredTimer = 0
             /\ state.eaten[g + 1]
        /\ CellOf(getPacmanPosition(t)) \notin successorCall.pred.food
             => state.score = successorCall.pred.score - TIME_PENALTY
                                + GHOST_BONUS * Cardinality(Scared(successorCall, t))

\* C30 witness: Pacman moved onto the capsule cell a ghost that was not scared
\* stood on: the ghost is back at its start, the score went up by 199
C30_Witness ==
  /\ OnLegal(successorCall)
  /\ CapsuleMove(successorCall, Before(successorCall))
  /\ Touched(successorCall, Before(successorCall)) # {}
  /\ ~state.lose /\ state.score = successorCall.pred.score + GHOST_BONUS - TIME_PENALTY
  /\ \E g \in GhostIndexes(state) : state.eaten[g + 1]

\* ------------------------------------------------------------------------
\* Collisions, timers and movement of the rule engine
\* ------------------------------------------------------------------------

\* ------------------------------------------------------------------------
\* The rule engine called on the snapshot of a game in progress, as an agent
\* calls it on the state it is handed: games in which the scared time of a
\* ghost is about to run out
\* ------------------------------------------------------------------------

\* %%%%%%
\* %oP G%
\* %o.  %
\* %%%%%%
TwoCapsuleLayout ==
  [width |-> 6, height |-> 4,
   walls |-> Border(6, 4),
   food |-> {<<2, 1>>},
   capsules |-> << <<1, 1>>, <<1, 2>> >>,
   agentPositions |-> << [isPacman |-> TRUE, pos |-> <<2, 2>>],
                         [isPacman |-> FALSE, pos |-> <<4, 2>>] >>]

\* the moves of a scared ghost once around the four cells in the right half
\* of the room, half a cell per move
Lap == <<SOUTH, SOUTH, WEST, WEST, NORTH, NORTH, EAST, EAST>>

\* n moves of ghost 1 around the lap, after the first `from` moves of it
GhostMoves(from, n) == [k \in 1..n |-> <<1, Lap[((from + k - 1) % Len(Lap)) + 1]>>]

\* Pacman eats the capsule next to it, then the ghost moves until its scared
\* time is 2: it is on a grid point
ScaredHistory == << <<0, WEST>> >> \o GhostMoves(0, SCARED_TIME - 2)

\* Pacman eats the second capsule while the scared ghost is between two grid
\* points, then the ghost moves until its scared time is 2: it is between
\* two grid points
RescaredHistory ==
  << <<0, WEST>> >> \o GhostMoves(0, 7) \o << <<0, SOUTH>> >> \o GhostMoves(7, SCARED_TIME - 2)

\* the histories of the games the snapshots are taken from
SnapshotHistories == {<<>>, ScaredHistory, RescaredHistory}

RECURSIVE Play(_, _, _)
\* the state of a game that is in s after the moves k, k + 1, ... of history,
\* each of them applied by generateSuccessor: the game goes on in the
\* successor (a call that raises would leave the state it was made on)
Play(s, history, k) ==
  IF k > Len(history) THEN s
  ELSE CHOOSE last \in
         {Play(IF r.status = "ok" THEN r.state ELSE r.pred, history, k + 1) :
            r \in {generateSuccessor(layout, s, history[k][1], history[k][2])}} : TRUE

\* a snapshot of such a game; moveHistory records the calls made on it
SnapshotInit ==
  /\ layout = TwoCapsuleLayout
  /\ agents = [k \in 1..Len(layout.agentPositions) |-> PlainAgent]
  /\ catchExceptions = FALSE
  /\ startingIndex = 0
  /\ \E history \in SnapshotHistories : state = Play(InitialState(layout), history, 1)
  /\ moveHistory = <<>>
  /\ gameOver = FALSE
  /\ agentCrashed = FALSE
  /\ agentTimeout = FALSE
  /\ crashCalls = <<>>
  /\ totalAgentTimes = [k \in 1..Len(agents) |-> 0]
  /\ totalAgentTimeWarnings = [k \in 1..Len(agents) |-> 0]
  /\ numMoves = 0
  /\ loopIndex = 0
  /\ agentIndex = 0
  /\ move_time = 0
  /\ skip_action = FALSE
  /\ observation = None
  /\ action = None
  /\ registered = [k \in 1..Len(agents) |-> 0]
  /\ finalCalls = [k \in 1..Len(agents) |-> 0]
  /\ displayFinished = FALSE
  /\ raised = None
  /\ muteAgents = FALSE
  /\ stdout = ProcessSink
  /\ OLD_STDOUT = NoSink
  /\ grid = NoGrid
  /\ gridCall = NoGridCall
  /\ copied = None
  /\ agentCall = NoAgentCall
  /\ successorCall = NoSuccessorCall
  /\ pc = "engine"

SnapshotNext == GenerateSuccessor

SnapshotSpec == SnapshotInit /\ [][SnapshotNext]_vars

\* the ghosts that are not scared and within the collision tolerance of
\* Pacman in s
Threats(s) ==
  {g \in GhostIndexes(s) : s.agentStates[g + 1].scaredTimer = 0 /\ InContact(s, g)}

\* C31 (amended): the collision rule runs once per transition, on the
\* positions after the move and the timer update: a contact with a checked
\* ghost that is not scared sets lose in that transition (unless win is set),
\* so in a state that is neither won nor lost the only ghosts with
\* scaredTimer = 0 within the tolerance of Pacman are ghosts that were eaten
\* and placed back at their start configuration next to Pacman; that contact
\* is not resolved in the transition that creates it.
C31_ContactResolved ==
  /\ (~state.win /\ ~state.lose)
       => \A g \in Threats(state) :
            /\ state.eaten[g + 1]
            /\ state.agentStates[g + 1].configuration = state.agentStates[g + 1].start
  /\ (OnLegal(successorCall) /\ successorCall.status = "ok")
       => \A t \in {Before(successorCall)} :
            (Killers(successorCall, t) # {} /\ ~t.win) => state.lose

\* C31 (as claimed): in a state that is neither won nor lost no ghost with
\* scaredTimer = 0 is within the collision tolerance of Pacman.
C31_NoUnresolvedContact ==
  (~state.win /\ ~state.lose) => Threats(state) = {}

\* C31 witness: Pacman ate a scared ghost on the ghost's start position; the
\* ghost is back there, not scared, and the game goes on
C31_Witness ==
  /\ ~state.win /\ ~state.lose
  /\ successorCall.status = "ok" /\ successorCall.agentIndex = 0
  /\ \E g \in Threats(state) : g \in Scared(successorCall, Before(successorCall))

\* ghost g as the transition of call c leaves it, given the state t before
\* the collisions: eaten when it is checked, in contact and scared, else as in t
AfterCheck(c, t, g) ==
  IF g \in Scared(c, t)
    THEN [placeGhost(t.agentStates[g + 1]) EXCEPT !.scaredTimer = 0]
    ELSE t.agentStates[g + 1]

\* C32: after Pacman's turn every ghost is checked against Pacman and each
\* contact is resolved on its own (every scared ghost in contact is eaten,
\* +200 each); after ghost g's own turn only g is checked: every other
\* ghost keeps its configuration and timer, is not eaten and cannot set lose,
\* also when it is within the collision tolerance of Pacman.
C32_WhoIsChecked ==
  (OnLegal(successorCall) /\ successorCall.status = "ok") =>
    \A t \in {Before(successorCall)} :
      /\ \A g \in GhostIndexes(state) :
           state.agentStates[g + 1] = AfterCheck(successorCall, t, g)
      /\ state.score = ScoreAfter(successorCall, t)
      /\ state.lose <=> (Killers(successorCall, t) # {} /\ ~t.win)
      /\ successorCall.agentIndex = 0
           => /\ Colliding(successorCall, t) = {g \in GhostIndexes(t) : InContact(t, g)}
              /\ \A g \in Scared(successorCall, t) : state.eaten[g + 1]
      /\ successorCall.agentIndex > 0
           => /\ Colliding(successorCall, t) \subseteq {successorCall.agentIndex}
              /\ \A g \in GhostIndexes(state) \ {successorCall.agentIndex} :
                   /\ state.agentStates[g + 1] = successorCall.pred.agentStates[g + 1]
                   /\ state.eaten[g + 1] = successorCall.pred.eaten[g + 1]

\* C32 witness: a ghost moved while another ghost, not scared, stood within
\* the tolerance of Pacman; the other ghost was left alone and the game goes on
C32_Witness ==
  /\ OnLegal(successorCall) /\ successorCall.status = "ok"
  /\ successorCall.agentIndex > 0
  /\ \E g \in Threats(state) : g # successorCall.agentIndex
  /\ ~state.lose

\* the scared time of ghost g in s
TimerOf(s, g) == s.agentStates[g + 1].scaredTimer

\* C33 (amended): scared time never goes below 0. On its own turn the timer
\* of a ghost becomes max(0, t - 1); on another ghost's turn it is unchanged;
\* on Pacman's turn it is unchanged or, when a capsule is eaten, set to the
\* scared duration. The one exception in every kind of turn: a scared ghost
\* that is checked and within the collision tolerance is eaten and its timer
\* is set to 0 at once, whatever it was.
C33_TimerDecrement ==
  (OnLegal(successorCall) /\ successorCall.status = "ok") =>
    \A t \in {Before(successorCall)} :
      \A g \in GhostIndexes(state) :
        /\ TimerOf(state, g) >= 0
        /\ g \in Scared(successorCall, t) => TimerOf(state, g) = 0
        /\ (g \notin Scared(successorCall, t) /\ g = successorCall.agentIndex)
             => TimerOf(state, g) = Max(0, TimerOf(successorCall.pred, g) - 1)
        /\ (g \notin Scared(successorCall, t) /\ g # successorCall.agentIndex)
             => /\ TimerOf(state, g) >= TimerOf(successorCall.pred, g)
                /\ successorCall.agentIndex > 0
                     => TimerOf(state, g) = TimerOf(successorCall.pred, g)
                /\ successorCall.agentIndex = 0
                     => TimerOf(state, g) \in {TimerOf(successorCall.pred, g), SCARED_TIME}

\* C33 (as claimed): on its own turn the timer of a ghost becomes
\* max(0, t - 1), and on another agent's turn it is not lower than before.
C33_TimerOnlyDecrements ==
  (OnLegal(successorCall) /\ successorCall.status = "ok") =>
    \A g \in GhostIndexes(state) :
      /\ g = successorCall.agentIndex
           => TimerOf(state, g) = Max(0, TimerOf(successorCall.pred, g) - 1)
      /\ g # successorCall.agentIndex
           => TimerOf(state, g) >= TimerOf(successorCall.pred, g)

\* C33 witness: the last unit of scared time of a ghost ran out on its own
\* turn, and the ghost was not eaten
C33_Witness ==
  /\ OnLegal(successorCall) /\ successorCall.status = "ok"
  /\ successorCall.agentIndex > 0
  /\ TimerOf(successorCall.pred, successorCall.agentIndex) = 1
  /\ TimerOf(state, successorCall.agentIndex) = 0
  /\ Scared(successorCall, Before(successorCall)) = {}

\* the position of ghost g in s
PosOf(s, g) == s.agentStates[g + 1].configuration.pos

\* where applyAction puts the mover of call c, before the timer update
MovedTo(c) ==
  ApplyAgentAction(layout, GameStateDataCopy(c.pred), c.agentIndex, c.action)
    .state.agentStates[c.agentIndex + 1].configuration.pos

\* C34: with integer start positions, Pacman and every ghost whose
\* scaredTimer is 0 are on a grid point in every reachable state, so only
\* scared ghosts are ever between grid points; on the turn its timer goes
\* from 1 to 0 a ghost is put on the grid point nearest to where its move
\* took it, and the collision check of that turn sees it there.
C34_UnscaredOnGrid ==
  /\ OnGrid(getPacmanPosition(state))
  /\ \A g \in GhostIndexes(state) : TimerOf(state, g) = 0 => OnGrid(PosOf(state, g))
  /\ (OnLegal(successorCall) /\ successorCall.status = "ok"
        /\ successorCall.agentIndex > 0
        /\ TimerOf(successorCall.pred, successorCall.agentIndex) = 1)
       => \A t \in {Before(successorCall)} :
            /\ PosOf(t, successorCall.agentIndex) = nearestPoint(MovedTo(successorCall))
            /\ TimerOf(t, successorCall.agentIndex) = 0
            /\ Colliding(successorCall, t) = Killers(successorCall, t)
            /\ Colliding(successorCall, t) = {}
                 => PosOf(state, successorCall.agentIndex) = PosOf(t, successorCall.agentIndex)

\* C34 witness: a ghost with scared time 1 moved half a cell off a grid point
\* and was put on a grid point as its scared time ran out
C34_Witness ==
  /\ OnLegal(successorCall) /\ successorCall.status = "ok"
  /\ successorCall.agentIndex > 0
  /\ TimerOf(successorCall.pred, successorCall.agentIndex) = 1
  /\ ~OnGrid(MovedTo(successorCall))
  /\ TimerOf(state, successorCall.agentIndex) = 0
  /\ OnGrid(PosOf(state, successorCall.agentIndex))
  /\ ~state.eaten[successorCall.agentIndex + 1]

\* C35: when Pacman's move ends on a capsule cell, consumption removes
\* exactly that capsule from the list and sets the scaredTimer of every
\* ghost to the scared duration 40 whatever it was before (a ghost that the
\* collision check of the same transition then eats ends at 0); in every
\* other transition the capsule list is unchanged and no timer goes up, and
\* no transition adds a capsule.
C35_CapsuleScaresAll ==
  (OnLegal(successorCall) /\ successorCall.status = "ok") =>
    \A t \in {Before(successorCall)} :
      /\ SeqSet(state.capsules) \subseteq SeqSet(successorCall.pred.capsules)
      /\ CapsuleMove(successorCall, t)
           => /\ state.capsules = ListRemove(successorCall.pred.capsules,
                                             CellOf(getPacmanPosition(state)))
              /\ Len(state.capsules) = Len(successorCall.pred.capsules) - 1
              /\ ~InSeq(state.capsules, CellOf(getPacmanPosition(state)))
              /\ state.capsuleEaten = CellOf(getPacmanPosition(state))
              /\ \A g \in GhostIndexes(state) :
                   /\ TimerOf(t, g) = SCARED_TIME
                   /\ TimerOf(state, g) =
                        (IF g \in Scared(successorCall, t) THEN 0 ELSE SCARED_TIME)
      /\ ~CapsuleMove(successorCall, t)
           => /\ state.capsules = successorCall.pred.capsules
              /\ state.capsuleEaten = None
              /\ \A g \in GhostIndexes(state) :
                   TimerOf(state, g) <= TimerOf(successorCall.pred, g)

\* C35 witness: Pacman ate the second capsule while the ghost was still
\* scared from the first: its timer went from 39 back to 40
C35_Witness ==
  /\ OnLegal(successorCall) /\ successorCall.status = "ok"
  /\ CapsuleMove(successorCall, Before(successorCall))
  /\ state.capsules = <<>>
  /\ \E g \in GhostIndexes(state) :
       /\ TimerOf(successorCall.pred, g) = SCARED_TIME - 1
       /\ TimerOf(state, g) = SCARED_TIME

\* the displacement from p to q, and n cells (in half-cells) in direction d
Displacement(p, q) == <<q[1] - p[1], q[2] - p[2]>>

Stride(d, halves) == <<DirVec(d)[1] * halves, DirVec(d)[2] * halves>>

\* the stride of ghost g of state s on its own turn, in half-cells: one cell,
\* or half a cell while it is scared
GhostStride(s, g) == IF TimerOf(s, g) > 0 THEN HalfCells \div 2 ELSE HalfCells

\* the mover of call c, a ghost, is where its move took it and faces the way
\* it moved
GhostAtMovedTo(c, s) ==
  /\ PosOf(s, c.agentIndex) = MovedTo(c)
  /\ s.agentStates[c.agentIndex + 1].configuration.direction = c.action

\* C36 (amended): Pacman moves exactly one cell for a cardinal action and
\* stays in place, keeping its facing, for Stop. The move of a ghost on its
\* own turn is exactly one cell in the chosen direction when its scaredTimer
\* before the decrement is 0 and exactly half a cell when it is positive;
\* the ghost is at that position facing that way in the successor, except
\* that a ghost whose timer was 1 is then put on the nearest grid point (from
\* a grid point it ends one cell on, or where it started) and a scared ghost
\* that touches Pacman is put back at its start configuration.
C36_Strides ==
  (OnLegal(successorCall) /\ successorCall.status = "ok") =>
    \A t \in {Before(successorCall)} :
      /\ successorCall.agentIndex = 0
           => /\ Displacement(getPacmanPosition(successorCall.pred), getPacmanPosition(state))
                   = Stride(successorCall.action, PACMAN_SPEED * HalfCells)
              /\ state.agentStates[1].configuration.direction =
                   (IF successorCall.action = STOP
                      THEN successorCall.pred.agentStates[1].configuration.direction
                      ELSE successorCall.action)
      /\ successorCall.agentIndex > 0
           => /\ successorCall.action \in Cardinals
              /\ Displacement(PosOf(successorCall.pred, successorCall.agentIndex),
                              MovedTo(successorCall))
                   = Stride(successorCall.action,
                            GhostStride(successorCall.pred, successorCall.agentIndex))
              /\ successorCall.agentIndex \in Scared(successorCall, t)
                   => state.agentStates[successorCall.agentIndex + 1].configuration
                        = state.agentStates[successorCall.agentIndex + 1].start
              /\ (successorCall.agentIndex \notin Scared(successorCall, t)
                    /\ TimerOf(successorCall.pred, successorCall.agentIndex) = 1)
                   => /\ PosOf(state, successorCall.agentIndex)
                           = nearestPoint(MovedTo(successorCall))
                      /\ OnGrid(PosOf(successorCall.pred, successorCall.agentIndex))
                           => Displacement(PosOf(successorCall.pred, successorCall.agentIndex),
                                           PosOf(state, successorCall.agentIndex))
                                \in {<<0, 0>>, Stride(successorCall.action, HalfCells)}
              /\ (successorCall.agentIndex \notin Scared(successorCall, t)
                    /\ TimerOf(successorCall.pred, successorCall.agentIndex) # 1)
                   => GhostAtMovedTo(successorCall, state)

\* C36 (as claimed): after its own turn a ghost is exactly one cell (timer 0
\* before the turn) or half a cell (timer positive) from where it was, in the
\* chosen direction.
C36_GhostEndsOneStrideOn ==
  (OnLegal(successorCall) /\ successorCall.status = "ok" /\ successorCall.agentIndex > 0)
    => Displacement(PosOf(successorCall.pred, successorCall.agentIndex),
                    PosOf(state, successorCall.agentIndex))
         = Stride(successorCall.action,
                  GhostStride(successorCall.pred, successorCall.agentIndex))

\* C36 witness: a ghost on a grid point with scared time 1 moved half a cell
\* West or South and ended its turn where it started
C36_Witness ==
  /\ OnLegal(successorCall) /\ successorCall.status = "ok"
  /\ successorCall.agentIndex > 0
  /\ TimerOf(successorCall.pred, successorCall.agentIndex) = 1
  /\ MovedTo(successorCall) # PosOf(successorCall.pred, successorCall.agentIndex)
  /\ PosOf(state, successorCall.agentIndex)
       = PosOf(successorCall.pred, successorCall.agentIndex)
  /\ Scared(successorCall, Before(successorCall)) = {}

\* the cell a position rounds to, as getPossibleActions and the display
\* round it
RoundedCell(pos) == <<RoundCell(pos[1]), RoundCell(pos[2])>>

\* the cell is inside the grid of the layout and is not a wall
FreeCell(cell) ==
  /\ cell[1] \in 0..(layout.width - 1)
  /\ cell[2] \in 0..(layout.height - 1)
  /\ cell \notin layout.walls

\* C37: in a layout with a walled border and start positions off the walls,
\* the rounded position of Pacman and of every ghost is a cell inside the
\* grid that is not a wall, in every reachable state; this holds as well for
\* the position a move takes a scared ghost to between two grid points and
\* for the grid point a ghost is put on when its scared time runs out.
C37_NoAgentInWall ==
  /\ \A i \in AgentIndexes(state) :
       FreeCell(RoundedCell(state.agentStates[i + 1].configuration.pos))
  /\ (OnLegal(successorCall) /\ successorCall.status = "ok")
       => /\ FreeCell(RoundedCell(MovedTo(successorCall)))
          /\ FreeCell(RoundedCell(nearestPoint(MovedTo(successorCall))))

\* C37 witness: a scared ghost next to the border wall moved half a cell
\* along it as its scared time ran out, and was put on a grid point
C37_Witness ==
  /\ OnLegal(successorCall) /\ successorCall.status = "ok"
  /\ successorCall.agentIndex > 0
  /\ TimerOf(successorCall.pred, successorCall.agentIndex) = 1
  /\ ~OnGrid(MovedTo(successorCall))
  /\ TimerOf(state, successorCall.agentIndex) = 0
  /\ \E d \in Cardinals :
       <<CellOf(PosOf(state, successorCall.agentIndex))[1] + DirVec(d)[1],
         CellOf(PosOf(state, successorCall.agentIndex))[2] + DirVec(d)[2]>> \in layout.walls
  /\ FreeCell(CellOf(PosOf(state, successorCall.agentIndex)))

\* the score changes of the transition of call c that do not come from a
\* collision with a ghost that is not scared: the time penalty of a Pacman
\* move, the food eaten, the win bonus, and the bonus of each ghost eaten
Earned(c, t) ==
  (IF c.agentIndex = 0 THEN 0 - TIME_PENALTY ELSE 0)
    + FOOD_REWARD * (Cardinality(c.pred.food) - Cardinality(state.food))
    + (IF state.win THEN WIN_BONUS ELSE 0)
    + GHOST_BONUS * Cardinality(Scared(c, t))

\* C38 (amended): the score changes of a transition are added to the score
\* exactly once: the successor's score minus the predecessor's is -1 if
\* Pacman moved (0 if a ghost moved), +10 if a food cell was eaten, +500 if
\* win was set, +200 for each scared ghost eaten and, when win is not set,
\* -500 for each checked ghost that is not scared and within the collision
\* tolerance: -500 when one such ghost sets lose, -1000 when two do.
C38_ScoreAccumulation ==
  (OnLegal(successorCall) /\ successorCall.status = "ok") =>
    \A t \in {Before(successorCall)} :
      /\ state.score - successorCall.pred.score
           = Earned(successorCall, t)
               - (IF state.win THEN 0 ELSE LOSE_PENALTY * Cardinality(Killers(successorCall, t)))
      /\ state.score - successorCall.pred.score = state.scoreChange
      /\ Cardinality(successorCall.pred.food) - Cardinality(state.food) \in {0, 1}
      /\ state.food \subseteq successorCall.pred.food
      /\ successorCall.agentIndex > 0 => (state.food = successorCall.pred.food /\ ~state.win)

\* C38 (as claimed): the penalty part of the difference is -500 if lose was
\* set in the transition, however many ghosts set it.
C38_SinglePenalty ==
  (OnLegal(successorCall) /\ successorCall.status = "ok") =>
    \A t \in {Before(successorCall)} :
      state.score - successorCall.pred.score
        = Earned(successorCall, t) - (IF state.lose THEN LOSE_PENALTY ELSE 0)

\* C38 witness: Pacman moved onto two ghosts that were not scared: -1001
C38_Witness ==
  /\ OnLegal(successorCall) /\ successorCall.status = "ok"
  /\ successorCall.agentIndex = 0
  /\ Cardinality(Killers(successorCall, Before(successorCall))) = 2
  /\ state.lose
  /\ state.score = successorCall.pred.score - TIME_PENALTY - 2 * LOSE_PENALTY

\* ------------------------------------------------------------------------
\* Copies of a state
\* ------------------------------------------------------------------------

\* C39: the deep copy of a state is equal to it by value (agent
\* configurations and timers, food, capsules, score) and has the same win
\* and lose flags, so the copy of a terminal state is terminal: it has no
\* legal action for any agent and every successor request on it fails.
C39_DeepCopyKeepsTerminal ==
  pc = "copied" =>
    /\ StateEq(copied, state)
    /\ copied.win = state.win /\ copied.lose = state.lose
    /\ (state.win \/ state.lose)
         => \A i \in AgentIndexes(copied) :
              /\ getLegalActions(layout, copied, i) = <<>>
              /\ \A a \in ActionInputs :
                   generateSuccessor(layout, copied, i, a).status = "terminal"

\* ------------------------------------------------------------------------
\* The packed form of a Grid
\* ------------------------------------------------------------------------

\* the number of words of CELLS_PER_INT bits that n cells need
WordsFor(n) == (n + CELLS_PER_INT - 1) \div CELLS_PER_INT

RECURSIVE WordFrom(_, _, _)
\* the value of word k (from 0) of the cells of g taken column by column,
\* counted from its bit j on: cell k * 30 + j is the bit of weight 2^(29 - j),
\* and a bit without a cell is 0
WordFrom(g, k, j) ==
  IF j >= CELLS_PER_INT \/ k * CELLS_PER_INT + j >= g.width * g.height THEN 0
  ELSE (IF g.data[((k * CELLS_PER_INT + j) \div g.height) + 1]
                 [((k * CELLS_PER_INT + j) % g.height) + 1]
          THEN 2^(CELLS_PER_INT - j - 1) ELSE 0)
       + WordFrom(g, k, j + 1)

\* C40: for every Grid with n = width * height cells, packBits returns
\* width, height and then exactly ceil(n / 30) words (none for n = 0, n / 30
\* when n is a multiple of 30), the cells taken column by column and the
\* first cell of a word in its most significant of 30 bits, the unused low
\* bits of the last word being 0.
C40_PackedWords ==
  gridCall.op = "packBits" =>
    /\ gridCall.status = "ok"
    /\ Len(gridCall.bits) = 2 + WordsFor(grid.width * grid.height)
    /\ gridCall.bits[1] = grid.width /\ gridCall.bits[2] = grid.height
    /\ \A k \in 1..WordsFor(grid.width * grid.height) :
         gridCall.bits[k + 2] = WordFrom(grid, k - 1, 0)

====
